---- MODULE Spec2Model ----
(***************************************************************************)
(* Model of packages/js/src/plugins/typescript/plugin.ts (the @nx/js       *)
(* TypeScript plugin): the project-reference traversals, the reference     *)
(* classifier, the extends-chain walk and the targets cache.               *)
(*                                                                         *)
(* A path is a sequence of names (<<"ws", "proj", "tsconfig.json">> is     *)
(* /ws/proj/tsconfig.json).  A file system is a record                     *)
(*   [files |-> function from the paths of the existing files to their     *)
(*              contents,                                                  *)
(*    dirs  |-> the set of the existing directories].                      *)
(***************************************************************************)
EXTENDS Integers, Sequences, FiniteSets, TLC

VARIABLES
  fs,            \* the file system the plugin reads
  internalRefs,  \* outcome of the last resolveInternalProjectReferences call
  shallowRefs,   \* outcome of the last resolveShallowExternalProjectReferences call
  hasExternal,   \* outcome of the last hasExternalProjectReferences call
  classified,    \* outcome of the last isExternalProjectReference call
  extended,      \* the locals of the running getExtendedConfigFiles call
  cacheFile,     \* the targets cache file tsc-<optionsHash>.hash on disk
  targetsCache,  \* the targetsCache record of the running createNodesV2 batch
  batch,         \* the running batch: its phase, pending files and results
  changes,       \* how many times a file was written
  mtimeMs,       \* the modification time each config file has, or had last
  tsConfigCache, \* the process-wide Map of readCachedTsConfig
  loaded,        \* outcome of the readCachedTsConfig call since the last write
  failedLoads,   \* the paths whose last readCachedTsConfig call threw
  rewrites,      \* how many times a config file was rewritten
  created,       \* outcome of the last single createNodesInternal call
  tscTargets,    \* outcome of the last single buildTscTargets call
  derivations    \* what the first buildTscTargets call of each kind returned

vars ==
  <<fs, internalRefs, shallowRefs, hasExternal, classified, extended,
    cacheFile, targetsCache, batch, changes,
    mtimeMs, tsConfigCache, loaded, failedLoads, rewrites, created,
    tscTargets, derivations>>

\* The variables of each part of the model.
refsVars == <<internalRefs, shallowRefs, hasExternal>>
classifyVars == <<classified>>
extendsVars == <<extended>>
cacheVars == <<cacheFile, targetsCache, batch, changes>>
loaderVars == <<mtimeMs, tsConfigCache, loaded, failedLoads, rewrites>>
createVars == <<created>>
buildVars == <<tscTargets, derivations>>

(***************************************************************************)
(* Bounds of the model.                                                    *)
(***************************************************************************)
\* References declared in the whole file system (summed over the configs).
MaxEdges == 3
\* Capacity of the call stack, in frames of one recursive function: a call
\* that would need one more frame throws RangeError (stack overflow).
MaxStack == 6
\* Descriptors (package.json, project.json) next to the unit's own.
MaxDescriptors == 2
\* Writes to the files of the workspace between the batches.
MaxChanges == 1

(***************************************************************************)
(* node:path and node:fs                                                   *)
(***************************************************************************)
\* Names that start with the two characters `..`.
DotDotNames == {"..", "..cache"}
\* Names that end with `.json`.
JsonNames == {"tsconfig.json", "tsconfig.lib.json", "package.json", "project.json"}

dirname(p) == IF p = <<>> THEN <<>> ELSE SubSeq(p, 1, Len(p) - 1)

join(p, name) == Append(p, name)

\* Length of the longest common prefix of two paths.
RECURSIVE commonPrefix(_, _)
commonPrefix(p, q) ==
  IF p # <<>> /\ q # <<>> /\ Head(p) = Head(q)
  THEN 1 + commonPrefix(Tail(p), Tail(q))
  ELSE 0

\* path.relative(from, to): one `..` per directory of `from` below the common
\* ancestor, then the rest of `to`.
relative(from, to) ==
  LET k == commonPrefix(from, to)
  IN  [i \in 1..(Len(from) - k) |-> ".."] \o SubSeq(to, k + 1, Len(to))

\* relative(...).startsWith('..'): the relative path is a string, so the test
\* reads the first two characters of its first name.
startsWithDotDot(rel) == rel # <<>> /\ rel[1] \in DotDotNames

\* refConfigPath.endsWith('.json')
endsWithJson(p) == p # <<>> /\ p[Len(p)] \in JsonNames

\* existsSync that answers true for a path that is not there.
existsSyncAlways(f, p) == TRUE

existsSync(f, p) == p \in DOMAIN f.files \/ p \in f.dirs

\* statSync(p).isFile(), for a path that exists
isFile(f, p) == p \in DOMAIN f.files

(***************************************************************************)
(* Module resolution.  A module specifier (the value of `extends`) is a    *)
(* sequence of names: <<".", "tsconfig.base.json">> is                     *)
(* ./tsconfig.base.json and <<"@scope", "pkg", "tsconfig.json">> is        *)
(* @scope/pkg/tsconfig.json.                                               *)
(***************************************************************************)
\* First names of the specifiers that start with `.`, and with `@`.
DotNames == {".", ".."}
ScopeNames == {"@scope"}

\* path.resolve(directory, specifier) of a relative specifier.
RECURSIVE resolvePath(_, _)
resolvePath(directory, specifier) ==
  IF specifier = <<>> THEN directory
  ELSE IF Head(specifier) = "." THEN resolvePath(directory, Tail(specifier))
  ELSE IF Head(specifier) = ".."
       THEN resolvePath(dirname(directory), Tail(specifier))
       ELSE resolvePath(join(directory, Head(specifier)), Tail(specifier))

\* The node_modules lookup of require.resolve: from the directory upwards.
\* <<>> when no node_modules directory holds the file.
RECURSIVE resolveInNodeModules(_, _, _)
resolveInNodeModules(f, specifier, directory) ==
  LET candidate == join(directory, "node_modules") \o specifier
  IN  IF candidate \in DOMAIN f.files THEN candidate
      ELSE IF directory = <<>> THEN <<>>
      ELSE resolveInNodeModules(f, specifier, dirname(directory))

\* require.resolve(specifier, { paths: [directory] }); <<>> when it throws.
requireResolve(f, specifier, directory) ==
  IF Head(specifier) \in DotNames
  THEN LET p == resolvePath(directory, specifier)
       IN  IF p \in DOMAIN f.files THEN p ELSE <<>>
  ELSE resolveInNodeModules(f, specifier, directory)

(***************************************************************************)
(* The workspace                                                           *)
(***************************************************************************)
workspaceRoot == <<"ws">>
\* The unit the model looks at is /ws/proj: createNodesInternal's projectRoot
\* for its config files is `proj`.
UnitRoot == <<"proj">>
UnitDir == workspaceRoot \o UnitRoot

\* join(workspaceRoot, projectRoot)
absoluteProjectRoot(projectRoot) == workspaceRoot \o projectRoot

\* The value of a compiler option that a config file does not set.
Unset == "unset"

\* The compiler options of a config file as the parser resolves them: an
\* option the file does not set is inherited from the config it extends,
\* unless the extended config cannot be resolved or the chain is circular.
RECURSIVE resolvedOptions(_, _, _)
resolvedOptions(f, tsConfigPath, extending) ==
  LET raw == f.files[tsConfigPath].raw
      base == IF raw.extends = <<>> THEN <<>>
              ELSE requireResolve(f, raw.extends, dirname(tsConfigPath))
  IN  IF base = <<>> \/ base \in extending \cup {tsConfigPath}
      THEN raw.compilerOptions
      ELSE LET inherited ==
                 resolvedOptions(f, base, extending \cup {tsConfigPath})
           IN  [o \in DOMAIN raw.compilerOptions |->
                  IF raw.compilerOptions[o] # Unset
                  THEN raw.compilerOptions[o]
                  ELSE inherited[o]]

\* The path-valued compiler options, none of them set: <<>> is the value of
\* an option that is not set.
NoPathOptions ==
  [outFile |-> <<>>, outDir |-> <<>>, tsBuildInfoFile |-> <<>>,
   rootDir |-> <<>>]

\* readTsConfig(tsConfigPath): the ParsedCommandLine the parser makes of the
\* content of a configuration file that exists.  The content holds the
\* references by their resolved paths, the raw JSON, the path-valued
\* compiler options (options.outFile, options.outDir,
\* options.tsBuildInfoFile, options.rootDir) by their absolute paths and the
\* files that the config covers (fileNames).
parseTsConfig(f, tsConfigPath) ==
  [projectReferences |-> f.files[tsConfigPath].projectReferences,
   raw |-> f.files[tsConfigPath].raw,
   options |-> resolvedOptions(f, tsConfigPath, {}),
   pathOptions |-> f.files[tsConfigPath].pathOptions,
   fileNames |-> f.files[tsConfigPath].fileNames]

\* The file system as a process sees it that has filled the Map of
\* readCachedTsConfig: with the modification times of the files and the Map.
withTsConfigCache(f, mtimes, cache) ==
  [files |-> f.files, dirs |-> f.dirs, mtimeMs |-> mtimes,
   tsConfigCache |-> cache]

\* What readCachedTsConfig(tsConfigPath) returns for a configuration file
\* that exists: the entry of the Map under the key of the path and the
\* modification time when there is one, else what the parser makes of the
\* file.  A file system without a Map is one whose Map is empty.
readTsConfig(f, tsConfigPath) ==
  IF /\ "tsConfigCache" \in DOMAIN f
     /\ <<tsConfigPath, f.mtimeMs[tsConfigPath]>> \in DOMAIN f.tsConfigCache
  THEN f.tsConfigCache[<<tsConfigPath, f.mtimeMs[tsConfigPath]>>]
  ELSE parseTsConfig(f, tsConfigPath)

\* An insertion-ordered key set (the keys of a Record<string, ...>): assigning
\* a key that is already there keeps its place.
addKey(keys, k) ==
  IF \E i \in 1..Len(keys) : keys[i] = k THEN keys ELSE Append(keys, k)

Range(s) == {s[i] : i \in 1..Len(s)}

(***************************************************************************)
(* isExternalProjectReference                                              *)
(***************************************************************************)
getTsConfigDirName(f, tsConfigPath) ==
  IF isFile(f, tsConfigPath) THEN dirname(tsConfigPath) ELSE tsConfigPath

\* The while loop of isExternalProjectReference: up from currentPath to the
\* project root, TRUE at the first directory that holds a descriptor.
RECURSIVE nestedProjectRoot(_, _, _)
nestedProjectRoot(f, currentPath, projectRoot) ==
  IF currentPath = absoluteProjectRoot(projectRoot) THEN FALSE
  ELSE IF existsSync(f, join(currentPath, "package.json"))
          \/ existsSync(f, join(currentPath, "project.json"))
       THEN TRUE
       ELSE nestedProjectRoot(f, dirname(currentPath), projectRoot)

isExternalProjectReference(f, refTsConfigPath, projectRoot) ==
  LET currentPath == getTsConfigDirName(f, refTsConfigPath)
  IN  IF startsWithDotDot(relative(absoluteProjectRoot(projectRoot), currentPath))
      THEN TRUE
      ELSE nestedProjectRoot(f, currentPath, projectRoot)

(***************************************************************************)
(* walkProjectReferences and its two visitors                              *)
(*                                                                         *)
(* A traversal threads a record                                            *)
(*   [status  |-> "ok", or "overflow" (RangeError: the call stack is       *)
(*                exhausted), or "enoent" (statSync threw: the config to   *)
(*                load does not exist),                                    *)
(*    visited |-> the configs the visitor was invoked with, in order,      *)
(*    loaded  |-> the configs read with readCachedTsConfig, in order,      *)
(*    refs    |-> the keys of the visitor's projectReferences record].     *)
(***************************************************************************)
WalkStart == [status |-> "ok", visited |-> <<>>, loaded |-> <<>>, refs |-> <<>>]

\* An internal visitor that forgets to stop at an external reference.
internalVisitorDescending(f, configPath, projectRoot, st) ==
  IF isExternalProjectReference(f, configPath, projectRoot)
  THEN [st |-> st, descend |-> TRUE]
  ELSE [st |-> [st EXCEPT !.refs = addKey(@, configPath)], descend |-> TRUE]

\* The visitor of resolveInternalProjectReferences: FALSE (do not descend)
\* for an external reference, else record it and descend.
internalVisitor(f, configPath, projectRoot, st) ==
  IF isExternalProjectReference(f, configPath, projectRoot)
  THEN [st |-> st, descend |-> FALSE]
  ELSE [st |-> [st EXCEPT !.refs = addKey(@, configPath)], descend |-> TRUE]

\* The visitor of resolveShallowExternalProjectReferences: records an
\* external reference, and returns false whatever the reference is.
shallowExternalVisitor(f, configPath, projectRoot, st) ==
  [st |-> IF isExternalProjectReference(f, configPath, projectRoot)
          THEN [st EXCEPT !.refs = addKey(@, configPath)]
          ELSE st,
   descend |-> FALSE]

visit(visitor, f, configPath, projectRoot, st) ==
  LET seenSt == [st EXCEPT !.visited = Append(@, configPath)]
  IN  IF visitor = "internal"
      THEN internalVisitor(f, configPath, projectRoot, seenSt)
      ELSE shallowExternalVisitor(f, configPath, projectRoot, seenSt)

\* walkProjectReferences(tsConfig, ..., visitor, projectReferences), from the
\* i-th reference of tsConfig on.  projectReferences is the function's own
\* fifth parameter: no caller passes it, so it is the default {} in every call,
\* and nothing writes to it.
RECURSIVE walkProjectReferences(_, _, _, _, _, _, _, _)
walkProjectReferences(f, visitor, tsConfig, i, projectReferences, projectRoot, depth, st) ==
  IF st.status # "ok" THEN st
  ELSE IF depth > MaxStack THEN [st EXCEPT !.status = "overflow"]
  ELSE IF i > Len(tsConfig.projectReferences) THEN st
  ELSE
    LET ref == tsConfig.projectReferences[i]
        next(s) == walkProjectReferences(f, visitor, tsConfig, i + 1,
                                         projectReferences, projectRoot,
                                         depth, s)
    IN  IF ref \in projectReferences THEN next(st)       \* already resolved
        ELSE IF ~existsSync(f, ref) THEN next(st)        \* ignored
        ELSE
          LET refConfigPath ==
                IF endsWithJson(ref) THEN ref ELSE join(ref, "tsconfig.json")
          IN  IF ~isFile(f, refConfigPath)                \* statSync throws
              THEN [st EXCEPT !.status = "enoent"]
              ELSE
                LET refTsConfig == readTsConfig(f, refConfigPath)
                    v == visit(visitor, f, refConfigPath, projectRoot,
                               [st EXCEPT !.loaded = Append(@, refConfigPath)])
                IN  IF v.descend
                    THEN next(walkProjectReferences(f, visitor, refTsConfig, 1,
                                                    {}, projectRoot,
                                                    depth + 1, v.st))
                    ELSE next(v.st)

resolveInternalProjectReferences(f, tsConfig, projectRoot) ==
  walkProjectReferences(f, "internal", tsConfig, 1, {}, projectRoot, 1,
                        WalkStart)

resolveShallowExternalProjectReferences(f, tsConfig, projectRoot) ==
  walkProjectReferences(f, "shallowExternal", tsConfig, 1, {}, projectRoot, 1,
                        WalkStart)

(***************************************************************************)
(* hasExternalProjectReferences                                            *)
(*                                                                         *)
(* A call returns [status, result, seen, loaded]: seen is the Set the      *)
(* recursion shares.                                                       *)
(***************************************************************************)
\* A check that looks at the references of the given config only and never
\* recurses into an internal reference.
RECURSIVE hasExternalDirectOnly(_, _, _, _, _, _, _)
hasExternalDirectOnly(f, tsConfigPath, tsConfig, projectRoot, i, depth, st) ==
  IF i > Len(tsConfig.projectReferences) THEN [st EXCEPT !.result = FALSE]
  ELSE
    LET ref == tsConfig.projectReferences[i]
    IN  IF existsSync(f, ref) /\ isExternalProjectReference(f, ref, projectRoot)
        THEN [st EXCEPT !.result = TRUE]
        ELSE hasExternalDirectOnly(f, tsConfigPath, tsConfig, projectRoot,
                                   i + 1, depth, st)

RECURSIVE hasExternalProjectReferences(_, _, _, _, _, _, _)
hasExternalProjectReferences(f, tsConfigPath, tsConfig, projectRoot, i, depth, st) ==
  IF st.status # "ok" THEN st
  ELSE IF depth > MaxStack THEN [st EXCEPT !.status = "overflow"]
  ELSE IF Len(tsConfig.projectReferences) = 0 THEN [st EXCEPT !.result = FALSE]
  ELSE IF i > Len(tsConfig.projectReferences) THEN [st EXCEPT !.result = FALSE]
  ELSE
    LET ref == tsConfig.projectReferences[i]
        \* seen.add(tsConfigPath), before the loop
        s0 == [st EXCEPT !.seen = @ \cup {tsConfigPath}]
        next(s) == hasExternalProjectReferences(f, tsConfigPath, tsConfig,
                                                projectRoot, i + 1, depth, s)
    IN  IF ref \in s0.seen THEN next(s0)                 \* already seen
        ELSE IF ~existsSync(f, ref) THEN next(s0)        \* ignored
        ELSE IF isExternalProjectReference(f, ref, projectRoot)
        THEN [s0 EXCEPT !.result = TRUE]
        ELSE
          LET refConfigPath ==
                IF endsWithJson(ref) THEN ref ELSE join(ref, "tsconfig.json")
          IN  IF ~isFile(f, refConfigPath)                \* statSync throws
              THEN [s0 EXCEPT !.status = "enoent"]
              ELSE
                LET refTsConfig == readTsConfig(f, refConfigPath)
                    r == hasExternalProjectReferences(
                           f, refConfigPath, refTsConfig, projectRoot, 1,
                           depth + 1,
                           [s0 EXCEPT !.loaded = Append(@, refConfigPath)])
                IN  IF r.status # "ok" THEN r
                    ELSE IF r.result THEN r
                    ELSE next(r)

HasExternalStart ==
  [status |-> "ok", result |-> FALSE, seen |-> {}, loaded |-> <<>>]

(***************************************************************************)
(* The reference traversals on the file systems of one unit                *)
(*                                                                         *)
(* /ws/proj is the unit (it holds package.json).  Its root config          *)
(* /ws/proj/tsconfig.json and three more configs may reference each other, *)
(* by file path or by directory path:                                      *)
(*   /ws/proj/a/tsconfig.json   in a nested unit when /ws/proj/a holds a   *)
(*                              package.json,                              *)
(*   /ws/proj/b/tsconfig.json   inside the unit,                           *)
(*   /ws/other/tsconfig.json    outside the unit;                          *)
(* /ws/proj/gone does not exist, and /ws/proj/empty is a directory without *)
(* a tsconfig.json.                                                        *)
(***************************************************************************)
RootConfig == join(UnitDir, "tsconfig.json")
ConfigA == <<"ws", "proj", "a", "tsconfig.json">>
ConfigB == <<"ws", "proj", "b", "tsconfig.json">>
ConfigO == <<"ws", "other", "tsconfig.json">>
Configs == <<RootConfig, ConfigA, ConfigB, ConfigO>>

RefTargets ==
  {RootConfig, ConfigA, ConfigB, ConfigO,
   UnitDir, dirname(ConfigA),
   <<"ws", "proj", "gone", "tsconfig.json">>, <<"ws", "proj", "empty">>}

\* The config file a reference path stands for.
resolved(ref) == IF endsWithJson(ref) THEN ref ELSE join(ref, "tsconfig.json")

\* The content of a package.json or project.json.
PackageJson(version) ==
  [name |-> "pkg", version |-> version, namedInputs |-> {}]

\* The content of a config file: its project references and its raw JSON,
\* where an `extends` of <<>> is an absent one; no path-valued option is set
\* and the config covers no file.
TsConfig(references) ==
  [projectReferences |-> references,
   raw |-> [extends |-> <<>>, include |-> <<>>, exclude |-> <<>>,
            compilerOptions |-> [noEmit |-> Unset]],
   pathOptions |-> NoPathOptions,
   fileNames |-> <<>>]

\* The file system in which Configs[n] declares the references refLists[n].
RefsFs(refLists, nested) ==
  LET descriptors ==
        {join(UnitDir, "package.json"),
         <<"ws", "other", "package.json">>}
        \cup (IF nested THEN {<<"ws", "proj", "a", "package.json">>} ELSE {})
      configs == Range(Configs)
      index(p) == CHOOSE n \in 1..Len(Configs) : Configs[n] = p
  IN  [files |-> [p \in configs \cup descriptors |->
                    IF p \in configs
                    THEN TsConfig(refLists[index(p)])
                    ELSE PackageJson(1)],
       dirs |-> {<<>>, workspaceRoot, UnitDir, dirname(ConfigA),
                 dirname(ConfigB), dirname(ConfigO), <<"ws", "proj", "empty">>}]

\* How many references each of the four configs declares.
RefCounts ==
  {c \in [1..Len(Configs) -> 0..MaxEdges] :
     c[1] + c[2] + c[3] + c[4] <= MaxEdges}

\* A reference list names no config twice, and a config does not reference
\* itself.
distinctTargets(refs) ==
  \A i, j \in 1..Len(refs) : resolved(refs[i]) = resolved(refs[j]) => i = j

noSelfReference(refLists) ==
  \A n \in 1..Len(Configs) :
    \A i \in 1..Len(refLists[n]) : resolved(refLists[n][i]) # Configs[n]

NotCalled == [status |-> "notCalled"]

\* No traversal was called.
RefsIdle ==
  /\ internalRefs = NotCalled
  /\ shallowRefs = NotCalled
  /\ hasExternal = NotCalled

\* The classifier was not called.
ClassifyIdle == classified = NotCalled

\* getExtendedConfigFiles was not called.
ExtendsIdle == extended = [pc |-> "idle"]

\* No batch is running, no cache file was written and no file was changed.
NoBatch ==
  [phase |-> "idle", cacheProjectGraph |-> "true", pending |-> {},
   results |-> <<>>]
NoCacheFile == [exists |-> FALSE, validJson |-> TRUE, entries |-> <<>>]

CacheIdle ==
  /\ cacheFile = NoCacheFile
  /\ targetsCache = <<>>
  /\ batch = NoBatch
  /\ changes = 0

\* readCachedTsConfig was not called.
LoaderIdle ==
  /\ mtimeMs = <<>>
  /\ tsConfigCache = <<>>
  /\ loaded = NotCalled
  /\ failedLoads = {}
  /\ rewrites = 0

\* createNodesInternal was not called on its own.
CreateIdle == created = NotCalled

\* buildTscTargets was not called on its own.
BuildIdle ==
  /\ tscTargets = NotCalled
  /\ derivations = <<>>

RefsInit ==
  /\ \E nested \in BOOLEAN, c \in RefCounts :
       \E r1 \in [1..c[1] -> RefTargets], r2 \in [1..c[2] -> RefTargets],
          r3 \in [1..c[3] -> RefTargets], r4 \in [1..c[4] -> RefTargets] :
         /\ \A r \in {r1, r2, r3, r4} : distinctTargets(r)
         /\ noSelfReference(<<r1, r2, r3, r4>>)
         /\ fs = RefsFs(<<r1, r2, r3, r4>>, nested)
  /\ RefsIdle
  /\ ClassifyIdle
  /\ ExtendsIdle
  /\ CacheIdle
  /\ LoaderIdle
  /\ CreateIdle
  /\ BuildIdle

ResolveInternal ==
  /\ internalRefs' =
       resolveInternalProjectReferences(fs, readTsConfig(fs, RootConfig),
                                        UnitRoot)
  /\ UNCHANGED <<fs, shallowRefs, hasExternal>>
  /\ UNCHANGED <<classifyVars, extendsVars, cacheVars,
               loaderVars, createVars, buildVars>>

ResolveShallowExternal ==
  /\ shallowRefs' =
       resolveShallowExternalProjectReferences(fs, readTsConfig(fs, RootConfig),
                                               UnitRoot)
  /\ UNCHANGED <<fs, internalRefs, hasExternal>>
  /\ UNCHANGED <<classifyVars, extendsVars, cacheVars,
               loaderVars, createVars, buildVars>>

HasExternal ==
  /\ hasExternal' =
       hasExternalProjectReferences(fs, RootConfig, readTsConfig(fs, RootConfig),
                                    UnitRoot, 1, 1, HasExternalStart)
  /\ UNCHANGED <<fs, internalRefs, shallowRefs>>
  /\ UNCHANGED <<classifyVars, extendsVars, cacheVars,
               loaderVars, createVars, buildVars>>

RefsNext == ResolveInternal \/ ResolveShallowExternal \/ HasExternal

SpecRefs == RefsInit /\ [][RefsNext]_vars

(***************************************************************************)
(* getExtendedConfigFiles                                                  *)
(***************************************************************************)
NoPackage == <<>>

\* null, or { filePath, externalPackage? }
resolveExtendedTsConfigPath(f, tsConfigPath, directory) ==
  LET resolvedPath == requireResolve(f, tsConfigPath, directory)
  IN  IF resolvedPath = <<>> THEN [null |-> TRUE]
      ELSE IF Head(tsConfigPath) \in DotNames
      THEN [null |-> FALSE, filePath |-> resolvedPath,
            externalPackage |-> NoPackage]
      ELSE [null |-> FALSE, filePath |-> resolvedPath,
            externalPackage |->
              IF Head(tsConfigPath) \in ScopeNames
              THEN SubSeq(tsConfigPath, 1, 2)
              ELSE SubSeq(tsConfigPath, 1, 1)]

\* The locals of getExtendedConfigFiles when the call starts (lines 762-766).
extendsStart(tsConfigPath, tsConfig) ==
  [pc |-> "test", tsConfigPath |-> tsConfigPath,
   currentConfigPath |-> tsConfigPath, currentConfig |-> tsConfig,
   extendedConfigFiles |-> <<>>, extendedExternalPackages |-> <<>>]

\* The test of the while condition (line 767): into the body (pc "body"),
\* or out of the loop to the return statement (pc "returned").
extendsTest(st) ==
  IF st.currentConfig.raw.extends = <<>>
  THEN [st EXCEPT !.pc = "returned"]
  ELSE [st EXCEPT !.pc = "body"]

\* One pass through the loop body (lines 768-781): a break returns, the end
\* of the body goes back to the test.
extendsBody(f, st) ==
  LET extendedConfigPath ==
        resolveExtendedTsConfigPath(f, st.currentConfig.raw.extends,
                                    dirname(st.currentConfigPath))
  IN  IF extendedConfigPath.null
      THEN [st EXCEPT !.pc = "returned"]
      ELSE IF extendedConfigPath.externalPackage # NoPackage
      THEN [st EXCEPT
              !.extendedExternalPackages =
                addKey(@, extendedConfigPath.externalPackage),
              !.pc = "returned"]
      ELSE [st EXCEPT
              !.extendedConfigFiles = addKey(@, extendedConfigPath.filePath),
              !.currentConfig = readTsConfig(f, extendedConfigPath.filePath),
              !.currentConfigPath = extendedConfigPath.filePath,
              !.pc = "test"]

\* The loop run to its end.  The loop is deterministic, so a call that comes
\* back to locals it had before never leaves the loop (pc "hang").
RECURSIVE runExtendsLoop(_, _, _)
runExtendsLoop(f, st, before) ==
  IF st.pc = "returned" THEN st
  ELSE IF st \in before THEN [st EXCEPT !.pc = "hang"]
  ELSE runExtendsLoop(f,
                      IF st.pc = "test" THEN extendsTest(st)
                      ELSE extendsBody(f, st),
                      before \cup {st})

\* getExtendedConfigFiles(tsConfigPath, tsConfig) as a function: status "ok"
\* with the two lists, or "hang" when the call never returns.
getExtendedConfigFiles(f, tsConfigPath, tsConfig) ==
  LET returned(end) ==
        [status |-> IF end.pc = "hang" THEN "hang" ELSE "ok",
         files |-> end.extendedConfigFiles,
         packages |-> end.extendedExternalPackages]
  IN  returned(runExtendsLoop(f, extendsStart(tsConfigPath, tsConfig), {}))

(***************************************************************************)
(* getInputs                                                               *)
(*                                                                         *)
(* An include or exclude pattern is a sequence of names, like a path; the  *)
(* names "*" and "**" are the wildcards.  An entry of the inputs is a      *)
(* record [kind, paths]:                                                   *)
(*   "fileset"  one path that starts with {projectRoot} or {workspaceRoot},*)
(*   "negated"  the same, with a leading `!`,                              *)
(*   "named"    a named input (production, ^default, ...),                 *)
(*   "dependentTasksOutputFiles"  the glob of the declaration outputs,     *)
(*   "externalDependencies"       the package names.                       *)
(***************************************************************************)
\* Names that start with a dot.
HiddenNames == DotNames \cup DotDotNames

\* path.normalize of a relative path: `.` names dropped, `..` resolved.
RECURSIVE normalizeOnto(_, _)
normalizeOnto(done, p) ==
  IF p = <<>> THEN done
  ELSE IF Head(p) = "." THEN normalizeOnto(done, Tail(p))
  ELSE IF Head(p) = ".." /\ done # <<>> /\ done[Len(done)] # ".."
       THEN normalizeOnto(dirname(done), Tail(p))
       ELSE normalizeOnto(Append(done, Head(p)), Tail(p))

\* joinPathFragments(a, b) and path.join(a, b) of relative paths
joinPathFragments(a, b) == normalizeOnto(<<>>, a \o b)

\* resolve(workspaceRoot, path) of a path relative to the workspace root
resolve(root, path) == normalizeOnto(root, path)

\* minimatch(file, pattern), name by name: the file is taken literally, `*`
\* in the pattern is one name that does not start with a dot, `**` is any
\* number of such names.
RECURSIVE minimatch(_, _)
minimatch(file, pattern) ==
  IF file = <<>> THEN pattern = <<>>
  ELSE IF pattern = <<>> THEN FALSE
  ELSE IF Head(pattern) = "**"
  THEN IF Tail(pattern) = <<>>
       THEN \A i \in 1..Len(file) : file[i] \notin HiddenNames
       ELSE \E k \in 0..(Len(file) - 1) :
              /\ \A i \in 1..k : file[i] \notin HiddenNames
              /\ minimatch(SubSeq(file, k + 1, Len(file)), Tail(pattern))
  ELSE /\ \/ Head(pattern) = Head(file)
          \/ Head(pattern) = "*" /\ Head(file) \notin HiddenNames
       /\ minimatch(Tail(file), Tail(pattern))

\* A normalisation that leaves the pattern as it is.
keepDotSlash(p) == p

\* (p) => (p.startsWith('./') ? p.slice(2) : p)
stripDotSlash(p) == IF p # <<>> /\ Head(p) = "." THEN Tail(p) ELSE p

\* pathToInputOrOutput(path, workspaceRoot, projectRoot), of the path already
\* resolved against the workspace root (line 741).
pathToInputOrOutput(fullPath, projectRoot) ==
  LET pathRelativeToProjectRoot ==
        relative(absoluteProjectRoot(projectRoot), fullPath)
  IN  IF startsWithDotDot(pathRelativeToProjectRoot)
      THEN <<"{workspaceRoot}">> \o relative(workspaceRoot, fullPath)
      ELSE <<"{projectRoot}">> \o pathRelativeToProjectRoot

RECURSIVE addKeys(_, _)
addKeys(keys, s) ==
  IF s = <<>> THEN keys ELSE addKeys(addKey(keys, Head(s)), Tail(s))

RECURSIVE concat(_)
concat(ss) == IF ss = <<>> THEN <<>> ELSE Head(ss) \o concat(Tail(ss))

\* getNamedInputs(projectRoot, context): the names of the named inputs of
\* nx.json and of the unit's descriptors.
NxJson == join(workspaceRoot, "nx.json")

getNamedInputs(f, projectRoot) ==
  LET of(p) == IF p \in DOMAIN f.files THEN f.files[p].namedInputs ELSE {}
  IN  of(NxJson)
      \cup of(join(absoluteProjectRoot(projectRoot), "package.json"))
      \cup of(join(absoluteProjectRoot(projectRoot), "project.json"))

\* 'production' in namedInputs ? 'production' : 'default'
defaultNamedInput(namedInputs) ==
  IF "production" \in namedInputs THEN "production" ELSE "default"

\* An upstream named input without the `^`.
upstreamWithoutCaret(namedInputs) ==
  IF "production" \in namedInputs THEN "production" ELSE "default"

\* 'production' in namedInputs ? '^production' : '^default'
upstreamNamedInput(namedInputs) ==
  IF "production" \in namedInputs THEN "^production" ELSE "^default"

\* getInputs(namedInputs, configFilePath, tsConfig, internalProjectReferences,
\* workspaceRoot, projectRoot); internalProjectReferences is the key list of
\* the record.  Status "ok" with the inputs, or the status of the call that
\* did not return.
getInputs(f, namedInputs, configFilePath, tsConfig, internalProjectReferences, projectRoot) ==
  LET projectTsConfigFiles == <<configFilePath>> \o internalProjectReferences
      n == Len(projectTsConfigFiles)
      offset(i) == relative(absoluteProjectRoot(projectRoot),
                            dirname(projectTsConfigFiles[i]))
      entry(kind, path) == [kind |-> kind, paths |-> <<path>>]
      inProject(p) ==
        pathToInputOrOutput(
          resolve(workspaceRoot, joinPathFragments(projectRoot, p)), projectRoot)
      overlaps(includePath, excludePath) ==
        \/ minimatch(stripDotSlash(includePath), stripDotSlash(excludePath))
        \/ minimatch(stripDotSlash(excludePath), stripDotSlash(includePath))
      \* config[i] is the ParsedCommandLine of projectTsConfigFiles[i]
      inputs(extendedConfigFiles, config, external) ==
        LET configFiles ==
              addKeys(extendedConfigFiles.files, projectTsConfigFiles)
            includePaths ==
              addKeys(<<>>,
                      concat([i \in 1..n |->
                                [j \in 1..Len(config[i].raw.include) |->
                                   joinPathFragments(offset(i),
                                                     config[i].raw.include[j])]]))
            otherFilesInclude(i) ==
              concat([k \in 1..n |->
                        IF projectTsConfigFiles[k] # projectTsConfigFiles[i]
                        THEN config[k].raw.include ELSE <<>>])
            kept(i, excludePath) ==
              \A k \in 1..Len(otherFilesInclude(i)) :
                ~overlaps(otherFilesInclude(i)[k], excludePath)
            excludePaths ==
              addKeys(<<>>,
                      concat([i \in 1..n |->
                                SelectSeq(config[i].raw.exclude,
                                          LAMBDA e : kept(i, e))]))
            sources ==
              IF includePaths # <<>>
              THEN (IF existsSync(f, join(absoluteProjectRoot(projectRoot),
                                          "package.json"))
                    THEN <<entry("fileset", <<"{projectRoot}", "package.json">>)>>
                    ELSE <<>>)
                   \o [i \in 1..Len(configFiles) |->
                         entry("fileset",
                               pathToInputOrOutput(configFiles[i], projectRoot))]
                   \o [i \in 1..Len(includePaths) |->
                         entry("fileset", inProject(includePaths[i]))]
              ELSE <<entry("named", <<defaultNamedInput(namedInputs)>>)>>
            negated ==
              [i \in 1..Len(excludePaths) |->
                 entry("negated", inProject(excludePaths[i]))]
            upstream ==
              IF external.result
              THEN entry("dependentTasksOutputFiles", <<"**", "*.d.ts">>)
              ELSE entry("named", <<upstreamNamedInput(namedInputs)>>)
        IN  IF extendedConfigFiles.status # "ok"
            THEN [status |-> extendedConfigFiles.status, inputs |-> <<>>]
            ELSE IF external.status # "ok"
            THEN [status |-> external.status, inputs |-> <<>>]
            ELSE [status |-> "ok",
                  inputs |->
                    sources \o negated \o <<upstream>>
                    \o <<[kind |-> "externalDependencies",
                          paths |-> <<<<"typescript">>>>
                                    \o extendedConfigFiles.packages]>>]
  IN  inputs(getExtendedConfigFiles(f, configFilePath, tsConfig),
             [i \in 1..n |-> IF i = 1 THEN tsConfig
                             ELSE readTsConfig(f, projectTsConfigFiles[i])],
             hasExternalProjectReferences(f, configFilePath, tsConfig,
                                          projectRoot, 1, 1, HasExternalStart))

(***************************************************************************)
(* getOutputs.  An output is a path as the inputs are; the file names that *)
(* the code makes by cutting and adding an extension are read from tables. *)
(***************************************************************************)
\* basename(path, ext): the last name without the extension, for the names
\* that end with it.
Stems ==
  ("bundle.js" :> "bundle") @@ ("tsconfig.json" :> "tsconfig")
  @@ ("tsconfig.lib.json" :> "tsconfig.lib")

basenameWithout(p, ext) ==
  LET name == p[Len(p)]
  IN  IF name \in DOMAIN Stems THEN Stems[name] ELSE name

\* `${name}${suffix}`
Suffixed ==
  (<<"bundle", ".js.map">> :> "bundle.js.map")
  @@ (<<"bundle", ".d.ts">> :> "bundle.d.ts")
  @@ (<<"bundle", ".d.ts.map">> :> "bundle.d.ts.map")
  @@ (<<"bundle", ".tsbuildinfo">> :> "bundle.tsbuildinfo")
  @@ (<<"tsconfig", ".tsbuildinfo">> :> "tsconfig.tsbuildinfo")
  @@ (<<"tsconfig.lib", ".tsbuildinfo">> :> "tsconfig.lib.tsbuildinfo")

withSuffix(name, suffix) == Suffixed[<<name, suffix>>]

\* The patterns of the files that tsc writes next to the sources.
InPlaceOutputs ==
  [i \in 1..12 |->
     <<"{projectRoot}", "**",
       <<"*.js", "*.cjs", "*.mjs", "*.jsx", "*.js.map", "*.jsx.map", "*.d.ts",
         "*.d.cts", "*.d.mts", "*.d.ts.map", "*.d.cts.map", "*.d.mts.map">>[i]>>]

\* normalize(file).startsWith(`${normalize(directory)}${sep}`)
startsWithDirectory(file, directory) ==
  /\ Len(file) > Len(directory)
  /\ SubSeq(file, 1, Len(directory)) = directory

\* A choice of the branch that looks at outDir before it looks at outFile.
outputModeOutDirFirst(config) ==
  IF config.pathOptions.outDir # <<>> THEN "outDir"
  ELSE IF config.pathOptions.outFile # <<>> THEN "outFile"
  ELSE IF config.fileNames # <<>> THEN "inPlace"
  ELSE "none"

\* The branch of getOutputs that a config takes (the conditions of lines 525,
\* 568 and 606): "none" when it takes no branch.
outputMode(config) ==
  IF config.pathOptions.outFile # <<>> THEN "outFile"
  ELSE IF config.pathOptions.outDir # <<>> THEN "outDir"
  ELSE IF config.fileNames # <<>> THEN "inPlace"
  ELSE "none"

\* getOutputs(configFilePath, tsConfig, internalProjectReferences,
\* workspaceRoot, projectRoot); internalProjectReferences is the key list of
\* the record.  The outputs in the order of the Set.
getOutputs(f, configFilePath, tsConfig, internalProjectReferences, projectRoot) ==
  LET n == Len(internalProjectReferences)
      out(path) == pathToInputOrOutput(path, projectRoot)
      fromWorkspace(path) ==
        pathToInputOrOutput(resolve(workspaceRoot, path), projectRoot)
      \* the branch of config.options.outFile
      bundled(o) ==
        LET outFileName == basenameWithout(o.outFile, ".js")
            outDir == relative(workspaceRoot, dirname(o.outFile))
            next(suffix) ==
              fromWorkspace(
                joinPathFragments(outDir, <<withSuffix(outFileName, suffix)>>))
        IN  <<out(o.outFile), next(".js.map"), next(".d.ts"),
              next(".d.ts.map"),
              IF tsConfig.pathOptions.tsBuildInfoFile # <<>>
              THEN out(tsConfig.pathOptions.tsBuildInfoFile)
              ELSE next(".tsbuildinfo")>>
      \* the branch of config.options.outDir; rootDir is an absolute path,
      \* never '.'
      inOutDir(o) ==
        <<out(o.outDir)>>
        \o (IF o.tsBuildInfoFile # <<>>
            THEN IF ~startsWithDirectory(o.tsBuildInfoFile, o.outDir)
                 THEN <<out(o.tsBuildInfoFile)>>
                 ELSE <<>>
            ELSE IF o.rootDir # <<>>
            THEN <<out(joinPathFragments(
                         o.outDir
                         \o relative(o.rootDir, absoluteProjectRoot(projectRoot)),
                         <<"*.tsbuildinfo">>))>>
            ELSE <<>>)
      \* the branch of config.fileNames.length
      inPlace ==
        InPlaceOutputs
        \o <<IF tsConfig.pathOptions.tsBuildInfoFile # <<>>
             THEN out(tsConfig.pathOptions.tsBuildInfoFile)
             ELSE <<"{projectRoot}",
                    withSuffix(basenameWithout(configFilePath, ".json"),
                               ".tsbuildinfo")>>>>
      ofConfig(config) ==
        IF outputMode(config) = "outFile" THEN bundled(config.pathOptions)
        ELSE IF outputMode(config) = "outDir"
        THEN inOutDir(config.pathOptions)
        ELSE IF outputMode(config) = "inPlace" THEN inPlace
        ELSE <<>>
  IN  addKeys(<<>>,
              concat([i \in 1..(n + 1) |->
                        IF i = 1 THEN ofConfig(tsConfig)
                        ELSE ofConfig(readTsConfig(
                                        f, internalProjectReferences[i - 1]))]))

(***************************************************************************)
(* isValidPackageJsonBuildConfig.  A value of package.json is              *)
(*   [kind |-> "undefined"]                  a field that is not there,    *)
(*   [kind |-> "string", path |-> p]         a path, by its names,         *)
(*   [kind |-> "object", entries |-> e]      e maps the keys to values.    *)
(***************************************************************************)
Undefined == [kind |-> "undefined"]

\* packageJson[field]
fieldOf(packageJson, field) ==
  IF field \in DOMAIN packageJson THEN packageJson[field] ELSE Undefined

\* Pairs <<a, b>> of names where b starts with the characters of a and goes
\* on.
NamePrefixes == {<<"dist", "dist-src">>}

\* pathToCheck.startsWith(resolvedOutDir), of the strings of two absolute
\* paths: the names before the last one of the directory are the same, and
\* the next name of the path starts with the last one.
stringStartsWith(pathToCheck, resolvedOutDir) ==
  LET k == Len(resolvedOutDir)
  IN  /\ Len(pathToCheck) >= k
      /\ SubSeq(pathToCheck, 1, k - 1) = SubSeq(resolvedOutDir, 1, k - 1)
      /\ \/ pathToCheck[k] = resolvedOutDir[k]
         \/ <<resolvedOutDir[k], pathToCheck[k]>> \in NamePrefixes

\* extname(path)
Extnames ==
  ("index.ts" :> ".ts") @@ ("index.d.ts" :> ".ts") @@ ("index.mts" :> ".mts")
  @@ ("index.js" :> ".js") @@ ("index.mjs" :> ".mjs")

extname(path) == Extnames[path[Len(path)]]

\* isPathSourceFile(path) of lines 675-685; resolvedOutDir is <<>> when no
\* output directory is configured.
isPathSourceFile(resolvedOutDir, projectRoot, path) ==
  IF resolvedOutDir # <<>>
  THEN ~stringStartsWith(resolve(absoluteProjectRoot(projectRoot), path),
                         resolvedOutDir)
  ELSE extname(path) \in {".ts", ".tsx", ".cts", ".mts"}

\* containsInvalidPath(value) of lines 688-706
containsInvalidPath(resolvedOutDir, projectRoot, value) ==
  IF value.kind = "string"
  THEN isPathSourceFile(resolvedOutDir, projectRoot, value.path)
  ELSE IF value.kind = "object"
  THEN \E currentKey \in DOMAIN value.entries :
         /\ currentKey # "types"
         /\ value.entries[currentKey].kind = "string"
         /\ isPathSourceFile(resolvedOutDir, projectRoot,
                             value.entries[currentKey].path)
  ELSE FALSE

\* The validity check that looks at `main` and `module` only.
isValidByMainAndModule(f, tsConfig, projectRoot) ==
  LET packageJsonPath == join(absoluteProjectRoot(projectRoot), "package.json")
      outDir == IF tsConfig.pathOptions.outFile # <<>>
                THEN dirname(tsConfig.pathOptions.outFile)
                ELSE tsConfig.pathOptions.outDir
      verdict(packageJson) ==
        \A field \in {"main", "module"} :
          ~(/\ fieldOf(packageJson, field).kind = "string"
            /\ isPathSourceFile(outDir, projectRoot,
                                fieldOf(packageJson, field).path))
  IN  IF ~existsSync(f, packageJsonPath) THEN TRUE
      ELSE verdict(f.files[packageJsonPath])

\* isValidPackageJsonBuildConfig(tsConfig, workspaceRoot, projectRoot); the
\* output directory of tsConfig.options is an absolute path, which
\* resolve(workspaceRoot, projectRoot, outDir) leaves as it is.
isValidPackageJsonBuildConfig(f, tsConfig, projectRoot) ==
  LET packageJsonPath == join(absoluteProjectRoot(projectRoot), "package.json")
      outDir == IF tsConfig.pathOptions.outFile # <<>>
                THEN dirname(tsConfig.pathOptions.outFile)
                ELSE tsConfig.pathOptions.outDir
      invalid(value) == containsInvalidPath(outDir, projectRoot, value)
      verdict(packageJson, exports) ==
        IF exports.kind = "string"
        THEN ~isPathSourceFile(outDir, projectRoot, exports.path)
        ELSE IF exports.kind = "object"
        THEN IF "." \in DOMAIN exports.entries
             THEN ~invalid(exports.entries["."])
             ELSE \A key \in DOMAIN exports.entries :
                    ~invalid(exports.entries[key])
        ELSE \A field \in {"main", "module"} :
               ~(/\ fieldOf(packageJson, field).kind = "string"
                 /\ isPathSourceFile(outDir, projectRoot,
                                     fieldOf(packageJson, field).path))
  IN  IF ~existsSync(f, packageJsonPath) THEN TRUE
      ELSE verdict(f.files[packageJsonPath],
                   fieldOf(f.files[packageJsonPath], "exports"))

(***************************************************************************)
(* buildTscTargets and createNodesInternal                                 *)
(***************************************************************************)
\* normalizePluginOptions(undefined): typecheck is enabled under its default
\* name, build is not enabled, the output is not verbose.
DefaultOptions ==
  [typecheck |-> [enabled |-> TRUE, targetName |-> "typecheck"],
   build |-> [enabled |-> FALSE],
   verboseOutput |-> FALSE]

basename(p) == p[Len(p)]

\* tsConfig.options.noEmit, as a condition
noEmit(tsConfig) == tsConfig.options.noEmit = "true"

\* `tsc --build ${options.build.configName}${verbose ? ' --verbose' : ''}`
buildCommand(configName, verboseOutput) ==
  IF configName = "tsconfig.lib.json"
  THEN IF verboseOutput THEN "tsc --build tsconfig.lib.json --verbose"
       ELSE "tsc --build tsconfig.lib.json"
  ELSE IF verboseOutput THEN "tsc --build tsconfig.json --verbose"
       ELSE "tsc --build tsconfig.json"

\* buildTscTargets(configFilePath, projectRoot, options, context): status
\* "ok" with the set of the targets, each [name, dependsOn, command, cache,
\* inputs, outputs] (<<"^", name>> is the string `^name`), or the status of
\* the call that did not return.  The targets that
\* addBuildAndWatchDepsTargets (./util) adds next to the build target are
\* left out.
buildTscTargets(f, configFilePath, projectRoot, options) ==
  LET namedInputs == getNamedInputs(f, projectRoot)
      someNoEmit(refs) ==
        \E i \in 1..Len(refs) : noEmit(readTsConfig(f, refs[i]))
      typecheck(tsConfig, internalProjectReferences, externalProjectReferences,
                inputs, outputs) ==
        IF internalProjectReferences.status # "ok"
        THEN [status |-> internalProjectReferences.status, targets |-> {}]
        ELSE IF externalProjectReferences.status # "ok"
        THEN [status |-> externalProjectReferences.status, targets |-> {}]
        ELSE IF inputs.status # "ok"
        THEN [status |-> inputs.status, targets |-> {}]
        ELSE [status |-> "ok",
              targets |->
                {[name |-> options.typecheck.targetName,
                  dependsOn |-> <<<<"^", options.typecheck.targetName>>>>,
                  command |->
                    IF \/ noEmit(tsConfig)
                       \/ someNoEmit(internalProjectReferences.refs)
                       \/ someNoEmit(externalProjectReferences.refs)
                    THEN "echo The 'typecheck' target is disabled"
                    ELSE IF options.verboseOutput
                    THEN "tsc --build --emitDeclarationOnly --verbose"
                    ELSE "tsc --build --emitDeclarationOnly",
                  cache |-> TRUE,
                  inputs |-> inputs.inputs,
                  outputs |-> outputs]}]
      withReferences(tsConfig, internalProjectReferences) ==
        typecheck(tsConfig, internalProjectReferences,
                  resolveShallowExternalProjectReferences(f, tsConfig,
                                                          projectRoot),
                  getInputs(f, namedInputs, configFilePath, tsConfig,
                            internalProjectReferences.refs, projectRoot),
                  getOutputs(f, configFilePath, tsConfig,
                             internalProjectReferences.refs, projectRoot))
      \* targets[targetName] = {...} of the build target (lines 347-378)
      build(targets, tsConfig, internalProjectReferences, inputs, outputs) ==
        IF internalProjectReferences.status # "ok"
        THEN [status |-> internalProjectReferences.status, targets |-> {}]
        ELSE IF inputs.status # "ok"
        THEN [status |-> inputs.status, targets |-> {}]
        ELSE [status |-> "ok",
              targets |->
                {t \in targets : t.name # options.build.targetName}
                \cup {[name |-> options.build.targetName,
                       dependsOn |-> <<<<"^", options.build.targetName>>>>,
                       command |-> buildCommand(options.build.configName,
                                                options.verboseOutput),
                       cache |-> TRUE,
                       inputs |-> inputs.inputs,
                       outputs |-> outputs]}]
      buildWithReferences(targets, tsConfig, internalProjectReferences) ==
        build(targets, tsConfig, internalProjectReferences,
              getInputs(f, namedInputs, configFilePath, tsConfig,
                        internalProjectReferences.refs, projectRoot),
              getOutputs(f, configFilePath, tsConfig,
                         internalProjectReferences.refs, projectRoot))
      withTypecheck(tsConfig, typechecked) ==
        IF typechecked.status # "ok" THEN typechecked
        ELSE IF /\ options.build.enabled
                /\ basename(configFilePath) = options.build.configName
                /\ isValidPackageJsonBuildConfig(f, tsConfig, projectRoot)
        THEN buildWithReferences(
               typechecked.targets, tsConfig,
               resolveInternalProjectReferences(f, tsConfig, projectRoot))
        ELSE typechecked
      withConfig(tsConfig) ==
        withTypecheck(
          tsConfig,
          IF basename(configFilePath) = "tsconfig.json"
             /\ options.typecheck.enabled
          THEN withReferences(
                 tsConfig,
                 resolveInternalProjectReferences(f, tsConfig, projectRoot))
          ELSE [status |-> "ok", targets |-> {}])
  IN  withConfig(readTsConfig(f, configFilePath))

\* readdirSync(directory): the names of the entries of the directory
readdirSync(f, directory) ==
  {p[Len(p)] : p \in {q \in DOMAIN f.files \cup f.dirs :
                        q # <<>> /\ dirname(q) = directory}}

NextConfigNames ==
  {"next.config.js", "next.config.cjs", "next.config.mjs", "next.config.ts"}

\* The early returns without the one for the Next.js projects.
noProjectWithoutNextCheck(f, configFilePath) ==
  LET projectRoot == dirname(configFilePath)
      siblingFiles == readdirSync(f, workspaceRoot \o projectRoot)
  IN  \/ projectRoot = <<>>
      \/ "package.json" \notin siblingFiles /\ "project.json" \notin siblingFiles
      \/ /\ basename(configFilePath) # "tsconfig.json"
         /\ "tsconfig.json" \notin siblingFiles

\* The early returns of createNodesInternal (lines 165-196): TRUE when the
\* call returns {} before it reads the config file.
noProject(f, configFilePath) ==
  LET projectRoot == dirname(configFilePath)
      siblingFiles == readdirSync(f, workspaceRoot \o projectRoot)
  IN  \/ projectRoot = <<>>
      \/ "package.json" \notin siblingFiles /\ "project.json" \notin siblingFiles
      \/ /\ basename(configFilePath) # "tsconfig.json"
         /\ "tsconfig.json" \notin siblingFiles
      \/ siblingFiles \cap NextConfigNames # {}

\* hashFile(path), of collision-free hashes: the content of the file
hashFile(f, path) ==
  IF path \in DOMAIN f.files THEN f.files[path] ELSE [missing |-> TRUE]

\* hashObject(object), collision-free
hashObject(object) == object

\* join(context.workspaceRoot, lockFileName), of the package manager npm
LockFile == join(workspaceRoot, "package-lock.json")

\* A key that hashes every file of the workspace.
cacheKeyOfAllFiles(f, configFilePath, options) ==
  [status |-> "ok",
   key |-> [nodeHash |-> <<hashObject(f.files), hashObject(options)>>,
            configFilePath |-> configFilePath]]

\* The composite cache key of createNodesInternal (lines 208-237): status
\* "ok" with the key [nodeHash, configFilePath], nodeHash being the list that
\* hashArray hashes, or the status of the call that did not return.  The
\* process runs in the workspace root, where packageJsonPath is looked up.
cacheKey(f, configFilePath, options) ==
  LET projectRoot == dirname(configFilePath)
      fullConfigPath == workspaceRoot \o configFilePath
      packageJsonPath ==
        workspaceRoot \o joinPathFragments(projectRoot, <<"package.json">>)
      composed(extendedConfigFiles, internalReferencedFiles,
               externalProjectReferences) ==
        LET hashed == <<fullConfigPath>> \o extendedConfigFiles.files
                      \o internalReferencedFiles.refs
                      \o externalProjectReferences.refs \o <<LockFile>>
            nodeHash ==
              [i \in 1..Len(hashed) |-> hashFile(f, hashed[i])]
              \o <<hashObject(options)>>
              \o (IF existsSync(f, packageJsonPath)
                  THEN <<hashObject(f.files[packageJsonPath])>>
                  ELSE <<>>)
        IN  IF extendedConfigFiles.status # "ok"
            THEN [status |-> extendedConfigFiles.status]
            ELSE IF internalReferencedFiles.status # "ok"
            THEN [status |-> internalReferencedFiles.status]
            ELSE IF externalProjectReferences.status # "ok"
            THEN [status |-> externalProjectReferences.status]
            ELSE [status |-> "ok",
                  key |-> [nodeHash |-> nodeHash,
                           configFilePath |-> configFilePath]]
      withConfig(tsConfig) ==
        composed(getExtendedConfigFiles(f, fullConfigPath, tsConfig),
                 resolveInternalProjectReferences(f, tsConfig, projectRoot),
                 resolveShallowExternalProjectReferences(f, tsConfig,
                                                         projectRoot))
  IN  withConfig(readTsConfig(f, fullConfigPath))

\* The projects of a createNodesInternal result with targets.
project(projectRoot, targets) ==
  {[root |-> projectRoot, projectType |-> "library", targets |-> targets]}

\* createNodesInternal with `=` in the place of `??=`: the targets are built
\* and stored whether the key is there or not.
createNodesInternalOverwriting(f, cache, configFilePath, options) ==
  LET projectRoot == dirname(configFilePath)
      none == [status |-> "ok", projects |-> {}, targetsCache |-> cache,
               built |-> FALSE, readsConfig |-> FALSE]
      read == [none EXCEPT !.readsConfig = TRUE]
      derived(k, built) ==
        IF k.status # "ok" THEN [read EXCEPT !.status = k.status]
        ELSE IF built.status # "ok"
        THEN [read EXCEPT !.status = built.status, !.built = TRUE]
        ELSE [status |-> "ok",
              projects |-> project(projectRoot, built.targets),
              targetsCache |-> (k.key :> [targets |-> built.targets]) @@ cache,
              built |-> TRUE, readsConfig |-> TRUE]
  IN  IF noProject(f, configFilePath) THEN none
      ELSE derived(cacheKey(f, configFilePath, options),
                   buildTscTargets(f, workspaceRoot \o configFilePath,
                                   projectRoot, options))

\* createNodesInternal(configFilePath, options, context, lockFileName,
\* targetsCache): the status of the call, the projects of its result (none
\* for {}), the targets cache it leaves, whether it called buildTscTargets,
\* and whether it called readCachedTsConfig (line 209).
createNodesInternal(f, cache, configFilePath, options) ==
  LET projectRoot == dirname(configFilePath)
      none == [status |-> "ok", projects |-> {}, targetsCache |-> cache,
               built |-> FALSE, readsConfig |-> FALSE]
      read == [none EXCEPT !.readsConfig = TRUE]
      \* targetsCache[cacheKey] ??= buildTscTargets(...)
      derived(k, built) ==
        IF k.status # "ok" THEN [read EXCEPT !.status = k.status]
        ELSE IF k.key \in DOMAIN cache
        THEN [read EXCEPT
                !.projects = project(projectRoot, cache[k.key].targets)]
        ELSE IF built.status # "ok"
        THEN [read EXCEPT !.status = built.status, !.built = TRUE]
        ELSE [status |-> "ok",
              projects |-> project(projectRoot, built.targets),
              targetsCache |-> (k.key :> [targets |-> built.targets]) @@ cache,
              built |-> TRUE, readsConfig |-> TRUE]
  IN  IF noProject(f, configFilePath) THEN none
      ELSE derived(cacheKey(f, configFilePath, options),
                   buildTscTargets(f, workspaceRoot \o configFilePath,
                                   projectRoot, options))

(***************************************************************************)
(* The file systems getExtendedConfigFiles is called on                    *)
(*                                                                         *)
(* /ws/proj/tsconfig.json, /ws/proj/tsconfig.lib.json and                  *)
(* /ws/tsconfig.base.json each extend nothing, a relative path (that       *)
(* resolves or not) or a config of a package; the packages are installed   *)
(* in /ws/node_modules or not.                                             *)
(***************************************************************************)
LibConfig == join(UnitDir, "tsconfig.lib.json")
BaseConfig == join(workspaceRoot, "tsconfig.base.json")
ExtendsConfigs == <<RootConfig, LibConfig, BaseConfig>>

PackageSpecifiers ==
  {<<"@scope", "pkg", "tsconfig.json">>, <<"pkg", "tsconfig.json">>}

ExtendsSpecifiers ==
  {<<>>, <<".", "tsconfig.json">>, <<".", "tsconfig.lib.json">>,
   <<".", "tsconfig.base.json">>, <<"..", "tsconfig.base.json">>,
   <<".", "proj", "tsconfig.json">>}
  \cup PackageSpecifiers

withExtends(tsConfig, specifier) ==
  [tsConfig EXCEPT !.raw.extends = specifier]

ExtendsFs(specifiers, installed) ==
  LET configs == Range(ExtendsConfigs)
      index(p) == CHOOSE n \in 1..Len(ExtendsConfigs) : ExtendsConfigs[n] = p
      packages == {<<"ws", "node_modules">> \o s : s \in installed}
      descriptors == {join(UnitDir, "package.json")}
  IN  [files |-> [p \in configs \cup packages \cup descriptors |->
                    IF p \in configs
                    THEN withExtends(TsConfig(<<>>), specifiers[index(p)])
                    ELSE IF p \in packages THEN TsConfig(<<>>)
                    ELSE PackageJson(1)],
       dirs |-> {<<>>, workspaceRoot, UnitDir}]

ExtendsInit ==
  /\ \E specifiers \in [1..Len(ExtendsConfigs) -> ExtendsSpecifiers],
        installed \in {{}, PackageSpecifiers} :
       fs = ExtendsFs(specifiers, installed)
  /\ RefsIdle
  /\ ClassifyIdle
  /\ ExtendsIdle
  /\ CacheIdle
  /\ LoaderIdle
  /\ CreateIdle
  /\ BuildIdle

\* getExtendedConfigFiles(tsConfigPath, tsConfig) is called (lines 209 and
\* 408), when no call is running.
GetExtendedConfigFiles ==
  /\ extended.pc \in {"idle", "returned"}
  /\ \E n \in 1..Len(ExtendsConfigs) :
       extended' = extendsStart(ExtendsConfigs[n],
                                readTsConfig(fs, ExtendsConfigs[n]))
  /\ UNCHANGED fs
  /\ UNCHANGED <<refsVars, classifyVars, cacheVars,
               loaderVars, createVars, buildVars>>

\* The running call tests the loop condition.
ExtendsTest ==
  /\ extended.pc = "test"
  /\ extended' = extendsTest(extended)
  /\ UNCHANGED fs
  /\ UNCHANGED <<refsVars, classifyVars, cacheVars,
               loaderVars, createVars, buildVars>>

\* The running call runs the loop body once.
ExtendsBody ==
  /\ extended.pc = "body"
  /\ extended' = extendsBody(fs, extended)
  /\ UNCHANGED fs
  /\ UNCHANGED <<refsVars, classifyVars, cacheVars,
               loaderVars, createVars, buildVars>>

ExtendsNext == GetExtendedConfigFiles \/ ExtendsTest \/ ExtendsBody

\* The call is sequential code: once started it keeps running.
SpecExtends ==
  ExtendsInit /\ [][ExtendsNext]_vars /\ WF_vars(ExtendsTest \/ ExtendsBody)

(***************************************************************************)
(* The file systems the classifier is called on                            *)
(*                                                                         *)
(* The unit /ws/proj holds the directories a, a/b and ..cache (a directory *)
(* whose name starts with two dots); /ws/other and the workspace root /ws  *)
(* are outside of it.  Every directory holds a tsconfig.json, so both the  *)
(* directory and the file can be the path of a reference.  The unit root   *)
(* holds a descriptor, and up to MaxDescriptors more descriptors lie in    *)
(* the other directories.                                                  *)
(***************************************************************************)
ClassifyDirs ==
  {UnitDir, <<"ws", "proj", "a">>, <<"ws", "proj", "a", "b">>,
   <<"ws", "proj", "..cache">>, <<"ws", "other">>, workspaceRoot}

DescriptorNames == {"package.json", "project.json"}

DescriptorPlaces ==
  {join(d, n) : d \in ClassifyDirs \ {UnitDir}, n \in DescriptorNames}

ClassifyRefs == ClassifyDirs \cup {join(d, "tsconfig.json") : d \in ClassifyDirs}

ClassifyFs(rootDescriptor, descriptors) ==
  LET configs == {join(d, "tsconfig.json") : d \in ClassifyDirs}
      all == descriptors \cup {join(UnitDir, rootDescriptor)}
  IN  [files |-> [p \in configs \cup all |->
                    IF p \in configs THEN TsConfig(<<>>) ELSE PackageJson(1)],
       dirs |-> {<<>>} \cup ClassifyDirs]

ClassifyInit ==
  /\ \E rootDescriptor \in DescriptorNames, descriptors \in SUBSET DescriptorPlaces :
       /\ Cardinality(descriptors) <= MaxDescriptors
       /\ fs = ClassifyFs(rootDescriptor, descriptors)
  /\ RefsIdle
  /\ ClassifyIdle
  /\ ExtendsIdle
  /\ CacheIdle
  /\ LoaderIdle
  /\ CreateIdle
  /\ BuildIdle

\* isExternalProjectReference(refTsConfigPath, workspaceRoot, projectRoot) on
\* a path that exists, as its callers guarantee (lines 849-852, 886-890).
Classify ==
  /\ \E ref \in ClassifyRefs :
       /\ existsSync(fs, ref)
       /\ classified' = [status |-> "ok", ref |-> ref,
                         external |-> isExternalProjectReference(fs, ref, UnitRoot)]
  /\ UNCHANGED fs
  /\ UNCHANGED <<refsVars, extendsVars, cacheVars,
               loaderVars, createVars, buildVars>>

ClassifyNext == Classify

SpecClassify == ClassifyInit /\ [][ClassifyNext]_vars

(***************************************************************************)
(* createNodesV2 batches on a workspace whose files change                 *)
(*                                                                         *)
(* The unit /ws/proj (package.json, tsconfig.json) may reference           *)
(* /ws/proj/a/tsconfig.json, which extends /ws/base.json, and              *)
(* /ws/other/tsconfig.json of the unit /ws/other.  Between two batches a   *)
(* file is written: nx.json (the named inputs), a config file (its noEmit  *)
(* option), the lock file, the unit's package.json, or the descriptor that *)
(* makes /ws/proj/a a unit of its own; or the cache file is damaged.       *)
(***************************************************************************)
NestedDescriptor == <<"ws", "proj", "a", "package.json">>
UnitPackageJson == join(UnitDir, "package.json")

NxJsonContent(production) ==
  [namedInputs |-> IF production THEN {"default", "production"}
                                 ELSE {"default"}]

LockFileContent(version) == [lockfileVersion |-> version]

\* The config that the configs of the workspace extend.
CacheBase == join(workspaceRoot, "base.json")

\* /ws/other/tsconfig.lib.json references the directory /ws/empty, which
\* holds no tsconfig.json: its derivation throws.
FailingConfig == <<"ws", "other", "tsconfig.lib.json">>
EmptyDir == <<"ws", "empty">>

CacheFs(rootRefs, aRefs, rootExtends, rootInclude) ==
  LET root == [TsConfig(rootRefs) EXCEPT !.raw.extends = rootExtends,
                                         !.raw.include = rootInclude]
      a == withExtends(TsConfig(aRefs), <<"..", "..", "base.json">>)
  IN  [files |-> (RootConfig :> root) @@ (ConfigA :> a)
                 @@ (ConfigO :> TsConfig(<<>>)) @@ (CacheBase :> TsConfig(<<>>))
                 @@ (FailingConfig :> TsConfig(<<EmptyDir>>))
                 @@ (UnitPackageJson :> PackageJson(1))
                 @@ (<<"ws", "other", "package.json">> :> PackageJson(1))
                 @@ (LockFile :> LockFileContent(1))
                 @@ (NxJson :> NxJsonContent(FALSE)),
       dirs |-> {<<>>, workspaceRoot, UnitDir, dirname(ConfigA),
                 dirname(ConfigO), EmptyDir}]

CacheInit ==
  /\ \E rootRefs \in {<<dirname(ConfigA)>>, <<ConfigO, ConfigA>>},
        aRefs \in {<<>>, <<ConfigO>>},
        based \in BOOLEAN :
       fs = CacheFs(rootRefs, aRefs,
                    IF based THEN <<"..", "base.json">> ELSE <<>>,
                    IF based THEN <<<<"src">>>> ELSE <<>>)
  /\ RefsIdle
  /\ ClassifyIdle
  /\ ExtendsIdle
  /\ CacheIdle
  /\ LoaderIdle
  /\ CreateIdle
  /\ BuildIdle

\* The files the glob **/tsconfig*.json matches, relative to the workspace
\* root.
TsConfigNames == {"tsconfig.json", "tsconfig.lib.json", "tsconfig.base.json"}

configFilePaths(f) ==
  {relative(workspaceRoot, p) : p \in {q \in DOMAIN f.files :
                                         q[Len(q)] \in TsConfigNames}}

\* readJsonFile(cachePath): the document of the file, or a thrown error when
\* the content of the file is not JSON.
readJsonFile(file) ==
  IF file.validJson THEN [status |-> "ok", value |-> file.entries]
  ELSE [status |-> "error"]

\* `!==` read as `===`: the cache is read when the flag says not to.
readTargetsCacheInverted(file, cacheProjectGraph) ==
  IF cacheProjectGraph = "false" /\ file.exists THEN readJsonFile(file)
  ELSE [status |-> "ok", value |-> <<>>]

\* readTargetsCache(cachePath), with process.env.NX_CACHE_PROJECT_GRAPH
readTargetsCache(file, cacheProjectGraph) ==
  IF cacheProjectGraph # "false" /\ file.exists THEN readJsonFile(file)
  ELSE [status |-> "ok", value |-> <<>>]

\* createNodesV2 starts a batch on the config files of the workspace: it
\* reads the targets cache (line 107, before the try block).  When the read
\* throws, the call is rejected (phase "rejected") before any derivation.
CreateNodesV2 ==
  /\ batch.phase # "running"
  /\ \E cacheProjectGraph \in {"true", "false"} :
       LET read == readTargetsCache(cacheFile, cacheProjectGraph)
       IN  IF read.status = "ok"
           THEN /\ targetsCache' = read.value
                /\ batch' = [phase |-> "running",
                             cacheProjectGraph |-> cacheProjectGraph,
                             pending |-> configFilePaths(fs),
                             results |-> <<>>]
           ELSE /\ UNCHANGED targetsCache
                /\ batch' = [phase |-> "rejected",
                             cacheProjectGraph |-> cacheProjectGraph,
                             pending |-> {}, results |-> <<>>]
  /\ UNCHANGED <<fs, cacheFile, changes>>
  /\ UNCHANGED <<refsVars, classifyVars, extendsVars,
               loaderVars, createVars, buildVars>>

\* createNodesFromFiles runs createNodesInternal on one of the files.
CreateNodesInternal ==
  /\ batch.phase = "running"
  /\ \E configFile \in batch.pending :
       LET r == createNodesInternal(fs, targetsCache, configFile, DefaultOptions)
       IN  /\ targetsCache' = r.targetsCache
           /\ batch' = [batch EXCEPT
                          !.pending = @ \ {configFile},
                          !.results = (configFile :>
                                         [status |-> r.status,
                                          projects |-> r.projects,
                                          built |-> r.built]) @@ @]
  /\ UNCHANGED <<fs, cacheFile, changes>>
  /\ UNCHANGED <<refsVars, classifyVars, extendsVars,
               loaderVars, createVars, buildVars>>

\* The finally block of createNodesV2: writeTargetsToCache.
WriteTargetsToCache ==
  /\ batch.phase = "running"
  /\ batch.pending = {}
  /\ cacheFile' = [exists |-> TRUE, validJson |-> TRUE,
                   entries |-> targetsCache]
  /\ batch' = [batch EXCEPT !.phase = "idle", !.cacheProjectGraph = "true"]
  /\ UNCHANGED <<fs, targetsCache, changes>>
  /\ UNCHANGED <<refsVars, classifyVars, extendsVars,
               loaderVars, createVars, buildVars>>

\* Between two batches a file of the workspace is written.
written(path, content) ==
  /\ batch.phase # "running"
  /\ changes < MaxChanges
  /\ changes' = changes + 1
  /\ fs' = [fs EXCEPT !.files = (path :> content) @@ @]
  /\ UNCHANGED <<cacheFile, targetsCache, batch>>
  /\ UNCHANGED <<refsVars, classifyVars, extendsVars,
               loaderVars, createVars, buildVars>>

WriteNxJson ==
  \E production \in BOOLEAN :
    /\ fs.files[NxJson] # NxJsonContent(production)
    /\ written(NxJson, NxJsonContent(production))

WriteTsConfig ==
  \E path \in {RootConfig, ConfigA, ConfigO, CacheBase}, value \in {"true", Unset} :
    /\ path \in DOMAIN fs.files
    /\ fs.files[path].raw.compilerOptions.noEmit # value
    /\ written(path,
               [fs.files[path] EXCEPT !.raw.compilerOptions.noEmit = value])

WriteLockFile ==
  \E version \in 1..2 :
    /\ fs.files[LockFile] # LockFileContent(version)
    /\ written(LockFile, LockFileContent(version))

WritePackageJson ==
  \E version \in 1..2 :
    /\ fs.files[UnitPackageJson] # PackageJson(version)
    /\ written(UnitPackageJson, PackageJson(version))

\* /ws/proj/a gets a package.json: it becomes a unit of its own.
WriteNestedDescriptor ==
  /\ NestedDescriptor \notin DOMAIN fs.files
  /\ written(NestedDescriptor, PackageJson(1))

\* Between two batches /ws/other/tsconfig.json is deleted.
RemoveConfig ==
  /\ batch.phase # "running"
  /\ changes < MaxChanges
  /\ ConfigO \in DOMAIN fs.files
  /\ changes' = changes + 1
  /\ fs' = [fs EXCEPT !.files = [p \in DOMAIN @ \ {ConfigO} |-> @[p]]]
  /\ UNCHANGED <<cacheFile, targetsCache, batch>>
  /\ UNCHANGED <<refsVars, classifyVars, extendsVars,
               loaderVars, createVars, buildVars>>

\* Between two batches the cache file is damaged: what is left of it is not
\* JSON.
CorruptCacheFile ==
  /\ batch.phase # "running"
  /\ changes < MaxChanges
  /\ cacheFile.exists /\ cacheFile.validJson
  /\ changes' = changes + 1
  /\ cacheFile' = [exists |-> TRUE, validJson |-> FALSE, entries |-> <<>>]
  /\ UNCHANGED <<fs, targetsCache, batch>>
  /\ UNCHANGED <<refsVars, classifyVars, extendsVars,
               loaderVars, createVars, buildVars>>

CacheNext ==
  \/ CreateNodesV2
  \/ CreateNodesInternal
  \/ WriteTargetsToCache
  \/ WriteNxJson
  \/ WriteTsConfig
  \/ WriteLockFile
  \/ WritePackageJson
  \/ WriteNestedDescriptor
  \/ RemoveConfig
  \/ CorruptCacheFile

SpecCache == CacheInit /\ [][CacheNext]_vars

(***************************************************************************)
(* What the reference graph of a file system says, apart from any          *)
(* traversal                                                               *)
(***************************************************************************)
TsConfigFiles(f) ==
  {p \in DOMAIN f.files : p[Len(p)] \in {"tsconfig.json", "tsconfig.lib.json"}}

\* Path p is a file or a directory of the file system.
onDisk(f, p) == p \in DOMAIN f.files \/ p \in f.dirs

\* The references of config c that exist on disk.
existingRefs(f, c) ==
  {r \in Range(f.files[c].projectReferences) : onDisk(f, r)}

\* The configs that the existing references of c stand for.
referencedConfigs(f, c) ==
  {resolved(r) : r \in {x \in existingRefs(f, c) : onDisk(f, resolved(x))}}

\* The configs reachable from the configs S along existing references to
\* configs of `allowed` (S included).
RECURSIVE reachable(_, _, _)
reachable(f, S, allowed) ==
  LET T == S \cup UNION {referencedConfigs(f, d) \cap allowed : d \in S}
  IN  IF T = S THEN S ELSE reachable(f, T, allowed)

\* No config reaches itself along existing references.
Acyclic(f) ==
  \A c \in TsConfigFiles(f) :
    c \notin reachable(f, referencedConfigs(f, c), TsConfigFiles(f))

\* The configs reachable from the root config along references that are each
\* classified internal.
InternalClosure(f) ==
  LET internal == {c \in TsConfigFiles(f) : ~isExternalProjectReference(f, c, UnitRoot)}
  IN  reachable(f, referencedConfigs(f, RootConfig) \cap internal, internal)

\* The configs whose reference lists an internal-only traversal reads.
InternalScope(f) == {RootConfig} \cup InternalClosure(f)

\* The file system without the references whose path is not on disk.
withoutMissingRefs(f) ==
  [f EXCEPT !.files =
     [p \in DOMAIN f.files |->
        IF p \in TsConfigFiles(f)
        THEN [f.files[p] EXCEPT !.projectReferences =
                SelectSeq(@, LAMBDA r : onDisk(f, r))]
        ELSE f.files[p]]]

noDuplicates(s) == \A i, j \in 1..Len(s) : s[i] = s[j] => i = j

\* Some config internal to the unit lies on a cycle of existing references
\* that stays inside the unit.
InternalCycle(f) ==
  LET internal == {c \in TsConfigFiles(f) : ~isExternalProjectReference(f, c, UnitRoot)}
  IN  \E c \in internal :
        c \in reachable(f, referencedConfigs(f, c) \cap internal, internal)

\* Every existing reference of the file system is classified internal.
OnlyInternalRefs(f) ==
  \A c \in TsConfigFiles(f) :
    \A r \in existingRefs(f, c) : ~isExternalProjectReference(f, r, UnitRoot)

(***************************************************************************)
(* Claims about the reference traversals (checked under SpecRefs)          *)
(***************************************************************************)

\* C1: on every references graph with a cycle of internal, existing configs,
\* the traversal of resolveInternalProjectReferences terminates (it returns,
\* it does not recurse until the call stack is exhausted).
C1_WalkTerminatesOnCycle ==
  InternalCycle(fs) => internalRefs.status # "overflow"

\* C3: hasExternalProjectReferences terminates on every cyclic graph of
\* internal references, whether the reference paths are config file paths or
\* directory paths.
C3_HasExternalTerminatesOnCycle ==
  (InternalCycle(fs) /\ OnlyInternalRefs(fs))
    => hasExternal.status # "overflow"

\* C4: within one traversal of resolveInternalProjectReferences the visitor is
\* invoked at most once per resolved configuration path.
C4_VisitedAtMostOnce ==
  internalRefs.status = "ok" => noDuplicates(internalRefs.visited)

\* C5: on an acyclic references graph resolveInternalProjectReferences
\* returns, unless a config to load is missing, and what it returns is exactly
\* the set of configs reachable from the root config through references each
\* classified internal: no external reference, and no config reachable only
\* through an external one.
C5_InternalIsInternalClosure ==
  (internalRefs.status # "notCalled" /\ Acyclic(fs)) =>
    /\ internalRefs.status \in {"ok", "enoent"}
    /\ internalRefs.status = "ok" =>
         /\ Range(internalRefs.refs) = InternalClosure(fs)
         /\ \A c \in Range(internalRefs.refs) :
              ~isExternalProjectReference(fs, c, UnitRoot)

\* C5 witness: an acyclic graph on which the traversal returned a non-empty
\* set, met an external config and left out a config, internal by its place,
\* that only this external config references.
C5_Witness ==
  /\ internalRefs.status = "ok"
  /\ Acyclic(fs)
  /\ internalRefs.refs # <<>>
  /\ \E e \in Range(internalRefs.visited) :
       /\ isExternalProjectReference(fs, e, UnitRoot)
       /\ \E c \in referencedConfigs(fs, e) :
            /\ ~isExternalProjectReference(fs, c, UnitRoot)
            /\ c \notin Range(internalRefs.refs)

\* C6: on an acyclic graph every config the internal traversal reaches is in
\* exactly one of the internal and the shallow-external results, and the two
\* results hold nothing else.
C6_ShallowIsComplement ==
  (internalRefs.status = "ok" /\ shallowRefs.status = "ok" /\ Acyclic(fs)) =>
    /\ \A c \in Range(internalRefs.visited) :
         (c \in Range(internalRefs.refs)) # (c \in Range(shallowRefs.refs))
    /\ Range(internalRefs.refs) \cup Range(shallowRefs.refs)
         \subseteq Range(internalRefs.visited)

\* C7: on an acyclic graph hasExternalProjectReferences returns, unless a
\* config to load is missing, and it returns true exactly when the root config
\* or a config of the internal closure declares an existing reference that is
\* classified external.
C7_HasExternalIffExternalInClosure ==
  (hasExternal.status # "notCalled" /\ Acyclic(fs)) =>
    /\ hasExternal.status \in {"ok", "enoent"}
    /\ hasExternal.status = "ok" =>
         (hasExternal.result <=>
            \E c \in InternalScope(fs) :
              \E r \in existingRefs(fs, c) : isExternalProjectReference(fs, r, UnitRoot))

\* C7 witness: the check returned true on an acyclic graph whose root config
\* declares no external reference itself.
C7_Witness ==
  /\ hasExternal.status = "ok"
  /\ hasExternal.result
  /\ Acyclic(fs)
  /\ \A r \in existingRefs(fs, RootConfig) : ~isExternalProjectReference(fs, r, UnitRoot)

\* C9: a reference whose path is not on disk is ignored by the three
\* traversals: nothing that is not on disk is loaded, visited or collected,
\* and each traversal ends exactly as it does on the file system from which
\* these references are deleted (same error or none, same configs loaded,
\* same visits, same result).
C9_MissingReferenceIgnored ==
  LET g == withoutMissingRefs(fs)
      root == readTsConfig(fs, RootConfig)
      pruned == readTsConfig(g, RootConfig)
  IN  /\ internalRefs.status # "notCalled" =>
           /\ internalRefs = resolveInternalProjectReferences(g, pruned, UnitRoot)
           /\ \A p \in Range(internalRefs.loaded) \cup Range(internalRefs.visited)
                       \cup Range(internalRefs.refs) : onDisk(fs, p)
      /\ shallowRefs.status # "notCalled" =>
           /\ shallowRefs = resolveShallowExternalProjectReferences(g, pruned, UnitRoot)
           /\ \A p \in Range(shallowRefs.loaded) \cup Range(shallowRefs.visited)
                       \cup Range(shallowRefs.refs) : onDisk(fs, p)
      /\ hasExternal.status # "notCalled" =>
           /\ LET h == hasExternalProjectReferences(g, RootConfig, pruned, UnitRoot,
                                                      1, 1,
                                                    HasExternalStart)
              IN  /\ hasExternal.status = h.status
                  /\ hasExternal.result = h.result
                  /\ Range(hasExternal.loaded) = Range(h.loaded)
           /\ \A p \in Range(hasExternal.loaded) : onDisk(fs, p)

\* C9 witness: the three traversals returned, and a config of the unit lists
\* a reference that is not on disk before one that was loaded.
C9_Witness ==
  /\ internalRefs.status = "ok"
  /\ shallowRefs.status = "ok"
  /\ hasExternal.status = "ok"
  /\ \E c \in InternalScope(fs) :
       LET refs == fs.files[c].projectReferences
       IN  \E i, j \in 1..Len(refs) :
             /\ i < j
             /\ ~onDisk(fs, refs[i])
             /\ resolved(refs[j]) \in Range(internalRefs.loaded)
             /\ resolved(refs[j]) \in Range(hasExternal.loaded)

(***************************************************************************)
(* The classifier                                                          *)
(***************************************************************************)
\* The directory a reference path stands for.
refDirectory(f, ref) == IF ref \in DOMAIN f.files THEN dirname(ref) ELSE ref

\* Directory d is the directory `root` or lies below it.
insideOf(root, d) ==
  Len(d) >= Len(root) /\ SubSeq(d, 1, Len(root)) = root

\* The directories from d up to the unit root, the root itself excluded.
upToUnitRoot(d) ==
  {SubSeq(d, 1, n) : n \in (Len(UnitDir) + 1)..Len(d)}

holdsDescriptor(f, d) ==
  \E n \in DescriptorNames : join(d, n) \in DOMAIN f.files

\* C8: isExternalProjectReference classifies a reference as external exactly
\* when its directory lies outside the unit's root directory, or some
\* directory on the path from it up to (but excluding) the unit's root holds
\* a package.json or project.json; the unit's root directory itself is
\* internal.
C8_ExternalIffOutsideOrNested ==
  classified.status = "ok" =>
    LET d == refDirectory(fs, classified.ref)
    IN  classified.external =
          (\/ ~insideOf(UnitDir, d)
           \/ \E up \in upToUnitRoot(d) : holdsDescriptor(fs, up))

(***************************************************************************)
(* The extends chain                                                       *)
(***************************************************************************)
\* C2: getExtendedConfigFiles terminates even when the chain of relative
\* `extends` references is cyclic: a call that was started returns.
C2_ExtendsWalkTerminates ==
  (extended.pc \in {"test", "body"}) ~> (extended.pc = "returned")

(***************************************************************************)
(* The targets cache                                                       *)
(***************************************************************************)
\* C10: the metadata cache is never stale: whenever createNodesInternal is
\* about to be called on a file of the running batch and finds the file's
\* composite key in the cache, the cached targets are the targets
\* buildTscTargets derives from the current files.
C10_CacheNeverStale ==
  batch.phase = "running" =>
    \A configFile \in batch.pending :
      LET k == cacheKey(fs, configFile, DefaultOptions)
          built == buildTscTargets(fs, workspaceRoot \o configFile,
                                   dirname(configFile), DefaultOptions)
      IN  (/\ ~noProject(fs, configFile)
           /\ k.status = "ok"
           /\ k.key \in DOMAIN targetsCache)
          => /\ built.status = "ok"
             /\ targetsCache[k.key].targets = built.targets

(***************************************************************************)
(* The composite cache key                                                 *)
(***************************************************************************)
\* The config file of the unit /ws/proj, as createNodesV2 gets it.
UnitConfigFile == relative(workspaceRoot, RootConfig)

\* The shallow-external references of the unit: the configs of the existing
\* references classified external that the root config or a config of the
\* internal closure declares.
ShallowExternal(f) ==
  UNION {{resolved(r) : r \in {x \in existingRefs(f, c) :
                                 isExternalProjectReference(f, x, UnitRoot)}}
         : c \in InternalScope(f)}

\* The files that influence the derivation of the unit's config file: the
\* config, the configs of its extends chain, the internal and the
\* shallow-external referenced configs, and the lock file.
InfluencingSet(f) ==
  {RootConfig, LockFile}
    \cup Range(getExtendedConfigFiles(f, RootConfig, readTsConfig(f, RootConfig)).files)
    \cup InternalClosure(f) \cup ShallowExternal(f)

\* Some file of the set S has different contents in f and g.
contentDiffers(f, g, S) == \E p \in S : hashFile(f, p) # hashFile(g, p)

\* C11: cache-key soundness: when a file of the influencing set of the unit's
\* config file is written with different content, the composite key of the
\* config file (same path, same options) after the write differs from the key
\* before it.
C11_KeySound ==
  [][LET before == cacheKey(fs, UnitConfigFile, DefaultOptions)
         after == cacheKey(fs', UnitConfigFile, DefaultOptions)
     IN  (/\ before.status = "ok"
          /\ after.status = "ok"
          /\ contentDiffers(fs, fs', InfluencingSet(fs) \cup InfluencingSet(fs')))
         => before.key # after.key]_vars

sameInfluence(f, g) ==
  /\ getExtendedConfigFiles(f, RootConfig, readTsConfig(f, RootConfig)).files
       = getExtendedConfigFiles(g, RootConfig, readTsConfig(g, RootConfig)).files
  /\ InternalClosure(f) = InternalClosure(g)
  /\ ShallowExternal(f) = ShallowExternal(g)
  /\ ~contentDiffers(f, g, InfluencingSet(f) \cup {UnitPackageJson})

C13_BuildIffKeyAbsent ==
  [][(batch.phase = "running" /\ batch'.phase = "running") =>
       \A configFile \in batch.pending \ batch'.pending :
         LET k == cacheKey(fs, configFile, DefaultOptions)
             r == batch'.results[configFile]
         IN  (~noProject(fs, configFile) /\ r.status = "ok") =>
               /\ r.built <=> k.key \notin DOMAIN targetsCache
               /\ DOMAIN targetsCache' = DOMAIN targetsCache \cup {k.key}
               /\ \A key \in DOMAIN targetsCache :
                    targetsCache'[key] = targetsCache[key]
               /\ r.projects = project(dirname(configFile),
                                       targetsCache'[k.key].targets)]_vars

\* C13 witness: in a running batch one derivation found its key in the cache
\* and returned the targets of the entry, and another one, whose key was not
\* there, built its targets and added them to the entries.
C13_Witness ==
  /\ batch.phase = "running"
  /\ \E hit, miss \in DOMAIN batch.results :
       /\ batch.results[hit].status = "ok"
       /\ batch.results[hit].projects # {}
       /\ ~batch.results[hit].built
       /\ batch.results[miss].status = "ok"
       /\ batch.results[miss].built
       /\ cacheKey(fs, miss, DefaultOptions).key \in DOMAIN targetsCache
       /\ cacheKey(fs, miss, DefaultOptions).key \notin DOMAIN cacheFile.entries
       /\ cacheKey(fs, hit, DefaultOptions).key \in DOMAIN cacheFile.entries

(***************************************************************************)
(* The cache file                                                          *)
(***************************************************************************)
\* C14: a cache file that exists and is not valid JSON does not make the
\* batch fail: no createNodesV2 call is rejected, the cache is taken as empty
\* and the files are derived.
C14_CorruptCacheIsEmptyCache == batch.phase # "rejected"

\* The entries that the derivations of the running batch have put.
putInBatch ==
  {cacheKey(fs, configFile, DefaultOptions).key :
     configFile \in {c \in DOMAIN batch.results :
                       batch.results[c].status = "ok" /\ batch.results[c].built}}

\* The step ends a createNodesV2 call: the call returns or throws.
EndsCall == batch' # batch /\ batch'.phase # "running"

\* C15: every createNodesV2 call reads the cache file once, before its
\* derivations, and writes it once, after all of them, also when some of them
\* failed: while the derivations run the file is not written, and a call ends
\* only with every file of the batch derived and with the file rewritten to
\* hold the targets cache, every entry put in this batch included.
C15_ReadOnceWriteOnce ==
  [][/\ (batch.phase = "running" /\ batch'.phase = "running")
          => cacheFile' = cacheFile
     /\ EndsCall =>
          /\ batch.phase = "running"
          /\ batch.pending = {}
          /\ cacheFile' = [exists |-> TRUE, validJson |-> TRUE,
                           entries |-> targetsCache]
          /\ putInBatch \subseteq DOMAIN cacheFile'.entries]_vars

\* The step is the write that ends a batch.
WritesCacheFile == batch.phase = "running" /\ batch'.phase = "idle"

\* Every entry of the cache file is in the file after the step, as it was.
entriesKept ==
  \A key \in DOMAIN cacheFile.entries :
    /\ key \in DOMAIN cacheFile'.entries
    /\ cacheFile'.entries[key] = cacheFile.entries[key]

\* C16 as stated: cache entries are never deleted: whatever the cache-disable
\* flag says, every entry that was in the cache file before a batch is in the
\* file after the batch.
C16_EntriesNeverDeleted == [][WritesCacheFile => entriesKept]_vars

\* C16, amended: the entries are kept by the batches that run without the
\* cache-disable flag (NX_CACHE_PROJECT_GRAPH is not 'false'): every entry
\* that was in the file before such a batch is in the file after it, also the
\* entries of config files that are not part of the batch.
C16_EntriesKeptUnlessDisabled ==
  [][(WritesCacheFile /\ batch.cacheProjectGraph # "false") => entriesKept]_vars

\* C16 witness: a batch has run and written the file after
\* /ws/other/tsconfig.json was deleted, and the file still holds the entry of
\* this config file.
C16_Witness ==
  /\ batch.phase = "idle"
  /\ UnitConfigFile \in DOMAIN batch.results
  /\ relative(workspaceRoot, ConfigO) \notin DOMAIN batch.results
  /\ ConfigO \notin DOMAIN fs.files
  /\ \E key \in DOMAIN cacheFile.entries :
       key.configFilePath = relative(workspaceRoot, ConfigO)

(***************************************************************************)
(* The config loader: readCachedTsConfig and its process-wide Map.  The    *)
(* workspace holds /ws/proj/tsconfig.json and /ws/proj/a/tsconfig.json;    *)
(* between the loads a file is rewritten with a modification time that     *)
(* differs from the one it has, deleted, or created again with a           *)
(* modification time that differs from the one it had.                     *)
(***************************************************************************)
\* The modification times a file can be given.
MaxTime == 2
\* Rewrites, deletions and creations of the config files.
MaxRewrites == 3

Timestamps == 1..MaxTime

LoaderConfigs == {RootConfig, ConfigA}

\* The content of a file that the parser rejects.
Broken == [broken |-> TRUE]

\* The contents a config file is given.  /ws/proj/tsconfig.json sets noEmit
\* or not; /ws/proj/a/tsconfig.json moreover extends ../tsconfig.json or
\* not, or is a file that the parser rejects.
LoaderContents(tsConfigPath) ==
  LET sets(v, e) == [TsConfig(<<>>) EXCEPT !.raw.compilerOptions.noEmit = v,
                                           !.raw.extends = e]
  IN  IF tsConfigPath = RootConfig
      THEN {sets(v, <<>>) : v \in {Unset, "true"}}
      ELSE {sets(v, e) : v \in {Unset, "true"},
                         e \in {<<>>, <<"..", "tsconfig.json">>}}
             \cup {Broken}

\* readTsConfig(tsConfigPath) throws: the parser rejects the file.
parserRejects(f, tsConfigPath) == "broken" \in DOMAIN f.files[tsConfigPath]

\* getTsConfigCacheKey(tsConfigPath): statSync throws ENOENT for a path that
\* is not there.  The key `${tsConfigPath}-${timestamp}` is the pair of its
\* parts: no two pairs of a path and a non-negative time make the same
\* string.
getTsConfigCacheKey(f, mtimes, tsConfigPath) ==
  IF ~existsSync(f, tsConfigPath) THEN [status |-> "enoent"]
  ELSE [status |-> "ok", key |-> <<tsConfigPath, mtimes[tsConfigPath]>>]

\* readCachedTsConfig(tsConfigPath) with the Map `cache`: the status of the
\* call, the record it returns, the Map it leaves and whether it called the
\* parser.
readCachedTsConfig(f, mtimes, cache, tsConfigPath) ==
  LET none == [status |-> "enoent", value |-> <<>>, tsConfigCache |-> cache,
               parsed |-> FALSE]
      cacheKey_ == getTsConfigCacheKey(f, mtimes, tsConfigPath)
  IN  IF cacheKey_.status # "ok" THEN none
      ELSE IF cacheKey_.key \in DOMAIN cache
      THEN [none EXCEPT !.status = "ok", !.value = cache[cacheKey_.key]]
      ELSE IF parserRejects(f, tsConfigPath)
      THEN [none EXCEPT !.status = "parseError", !.parsed = TRUE]
      ELSE [status |-> "ok", value |-> readTsConfig(f, tsConfigPath),
            tsConfigCache |->
              (cacheKey_.key :> readTsConfig(f, tsConfigPath)) @@ cache,
            parsed |-> TRUE]

LoaderInit ==
  /\ \E root \in LoaderContents(RootConfig), a \in LoaderContents(ConfigA) :
       fs = [files |-> (RootConfig :> root) @@ (ConfigA :> a),
             dirs |-> {<<>>, workspaceRoot, UnitDir, dirname(ConfigA)}]
  /\ mtimeMs \in [LoaderConfigs -> Timestamps]
  /\ tsConfigCache = <<>>
  /\ loaded = NotCalled
  /\ failedLoads = {}
  /\ rewrites = 0
  /\ RefsIdle
  /\ ClassifyIdle
  /\ ExtendsIdle
  /\ CacheIdle
  /\ CreateIdle
  /\ BuildIdle

\* One call of readCachedTsConfig.
ReadCachedTsConfig ==
  \E tsConfigPath \in LoaderConfigs :
    LET r == readCachedTsConfig(fs, mtimeMs, tsConfigCache, tsConfigPath)
    IN  /\ tsConfigCache' = r.tsConfigCache
        /\ loaded' = [status |-> r.status, tsConfigPath |-> tsConfigPath,
                      value |-> r.value, parsed |-> r.parsed]
        /\ failedLoads' = IF r.status = "ok"
                          THEN failedLoads \ {tsConfigPath}
                          ELSE failedLoads \cup {tsConfigPath}
        /\ UNCHANGED <<fs, mtimeMs, rewrites>>
        /\ UNCHANGED <<refsVars, classifyVars, extendsVars, cacheVars,
                       createVars, buildVars>>

\* The file system changes under the process.
rewritten(files, tsConfigPath, timestamp) ==
  /\ rewrites < MaxRewrites
  /\ rewrites' = rewrites + 1
  /\ timestamp # mtimeMs[tsConfigPath]
  /\ fs' = [fs EXCEPT !.files = files]
  /\ mtimeMs' = [mtimeMs EXCEPT ![tsConfigPath] = timestamp]
  /\ loaded' = NotCalled
  /\ UNCHANGED <<tsConfigCache, failedLoads>>
  /\ UNCHANGED <<refsVars, classifyVars, extendsVars, cacheVars, createVars, buildVars>>

\* A config file is rewritten, with another content and another
\* modification time.
RewriteConfig ==
  \E tsConfigPath \in DOMAIN fs.files, timestamp \in Timestamps :
    \E content \in LoaderContents(tsConfigPath) \ {fs.files[tsConfigPath]} :
      rewritten((tsConfigPath :> content) @@ fs.files, tsConfigPath, timestamp)

\* A config file is deleted.
DeleteConfig ==
  \E tsConfigPath \in DOMAIN fs.files :
    /\ rewrites < MaxRewrites
    /\ rewrites' = rewrites + 1
    /\ fs' = [fs EXCEPT !.files = [p \in DOMAIN @ \ {tsConfigPath} |-> @[p]]]
    /\ loaded' = NotCalled
    /\ UNCHANGED <<mtimeMs, tsConfigCache, failedLoads>>
    /\ UNCHANGED <<refsVars, classifyVars, extendsVars, cacheVars, createVars, buildVars>>

\* A config file that was deleted is created again.
CreateConfig ==
  \E tsConfigPath \in LoaderConfigs \ DOMAIN fs.files,
     timestamp \in Timestamps :
    \E content \in LoaderContents(tsConfigPath) :
      rewritten((tsConfigPath :> content) @@ fs.files, tsConfigPath, timestamp)

LoaderNext ==
  \/ ReadCachedTsConfig
  \/ RewriteConfig
  \/ DeleteConfig
  \/ CreateConfig

SpecLoader == LoaderInit /\ [][LoaderNext]_vars

(***************************************************************************)
(* C17: whenever every rewrite changes the modification time of the file,  *)
(* a readCachedTsConfig call that returns, returns the record the parser   *)
(* makes of the content the file has at the call.                          *)
(***************************************************************************)
C17_LoadsCurrentContent ==
  loaded.status = "ok"
    => /\ ~parserRejects(fs, loaded.tsConfigPath)
       /\ loaded.value = readTsConfig(fs, loaded.tsConfigPath)

(***************************************************************************)
(* C18: a readCachedTsConfig call that throws leaves the Map as it was,    *)
(* and the next call for the same path that returns has called the parser. *)
(***************************************************************************)
C18_FailedLoadNotCached ==
  [][/\ loaded'.status \in {"enoent", "parseError"}
       => tsConfigCache' = tsConfigCache
     /\ (loaded'.status = "ok" /\ loaded'.tsConfigPath \in failedLoads)
       => loaded'.parsed]_vars

(***************************************************************************)
(* Single createNodesInternal calls.  The workspace holds                  *)
(* /ws/tsconfig.json, /ws/proj/tsconfig.lib.json, /ws/proj/a/tsconfig.json *)
(* and /ws/other/tsconfig.json (with /ws/other/package.json); /ws/proj     *)
(* holds a package.json, a project.json, a tsconfig.json and one of the    *)
(* next.config files, or not.  /ws/proj/tsconfig.json references nothing,  *)
(* /ws/proj/a, /ws/other or both, /ws/proj/a/tsconfig.json references      *)
(* /ws/other or nothing, and one of the configs sets noEmit, or none.      *)
(* createNodesInternal is called on the config files of the workspace,     *)
(* with typecheck enabled or not, on the targets cache that the calls      *)
(* before have left.                                                       *)
(***************************************************************************)
WorkspaceRootConfig == join(workspaceRoot, "tsconfig.json")
UnitProjectJson == join(UnitDir, "project.json")

\* normalizePluginOptions({ typecheck: false })
TypecheckDisabled == [DefaultOptions EXCEPT !.typecheck.enabled = FALSE]

\* What /ws/proj holds: the standard unit has a package.json and a
\* tsconfig.json.
UnitShapes ==
  [packageJson : BOOLEAN, projectJson : BOOLEAN, tsconfigJson : BOOLEAN,
   nextConfig : NextConfigNames \cup {"none"}]
StandardUnit ==
  [packageJson |-> TRUE, projectJson |-> FALSE, tsconfigJson |-> TRUE,
   nextConfig |-> "none"]

\* The references of /ws/proj/tsconfig.json and of /ws/proj/a/tsconfig.json,
\* and the config that sets noEmit (<<>> for none).
ReferenceShapes ==
  [rootRefs : {<<>>, <<dirname(ConfigA)>>, <<ConfigO>>,
               <<dirname(ConfigA), ConfigO>>},
   aRefs : {<<>>, <<ConfigO>>},
   noEmit : {<<>>, RootConfig, ConfigA, ConfigO}]
NoReferences == [rootRefs |-> <<>>, aRefs |-> <<>>, noEmit |-> <<>>]

CreateFs(unit, refs) ==
  LET config(p, references) ==
        [TsConfig(references) EXCEPT
           !.raw.compilerOptions.noEmit =
             IF refs.noEmit = p THEN "true" ELSE Unset]
      optional(present, p, content) ==
        IF present THEN p :> content ELSE <<>>
  IN  [files |->
         (WorkspaceRootConfig :> TsConfig(<<>>))
         @@ (LibConfig :> TsConfig(<<>>))
         @@ (ConfigA :> config(ConfigA, refs.aRefs))
         @@ (ConfigO :> config(ConfigO, <<>>))
         @@ (<<"ws", "other", "package.json">> :> PackageJson(1))
         @@ (LockFile :> LockFileContent(1))
         @@ (NxJson :> NxJsonContent(FALSE))
         @@ optional(unit.tsconfigJson, RootConfig,
                     config(RootConfig, refs.rootRefs))
         @@ optional(unit.packageJson, UnitPackageJson, PackageJson(1))
         @@ optional(unit.projectJson, UnitProjectJson, PackageJson(1))
         @@ optional(unit.nextConfig # "none", join(UnitDir, unit.nextConfig),
                     [next |-> TRUE]),
       dirs |-> {<<>>, workspaceRoot, UnitDir, dirname(ConfigA),
                 dirname(ConfigO)}]

CreateInit ==
  /\ \E unit \in UnitShapes, refs \in ReferenceShapes :
       /\ unit = StandardUnit \/ refs = NoReferences
       /\ fs = CreateFs(unit, refs)
  /\ RefsIdle
  /\ ClassifyIdle
  /\ ExtendsIdle
  /\ CacheIdle
  /\ LoaderIdle
  /\ CreateIdle
  /\ BuildIdle

\* One createNodesInternal call, on the targets cache the calls before
\* have left.
CreateNodes ==
  \E configFilePath \in configFilePaths(fs),
     options \in {DefaultOptions, TypecheckDisabled} :
    LET r == createNodesInternal(fs, targetsCache, configFilePath, options)
    IN  /\ targetsCache' = r.targetsCache
        /\ created' = [status |-> r.status,
                       configFilePath |-> configFilePath,
                       options |-> options,
                       projects |-> r.projects,
                       targetsCacheBefore |-> targetsCache,
                       readsConfig |-> r.readsConfig]
        /\ UNCHANGED <<fs, cacheFile, batch, changes>>
        /\ UNCHANGED <<refsVars, classifyVars, extendsVars, loaderVars,
                       buildVars>>

CreateNext == CreateNodes

SpecCreate == CreateInit /\ [][CreateNext]_vars

(***************************************************************************)
(* C19: a createNodesInternal call on a config file at the workspace root, *)
(* or in a directory without package.json and project.json, or not named   *)
(* tsconfig.json and without a tsconfig.json next to it, or next to a      *)
(* next.config.{js,cjs,mjs,ts}, returns without error a result with no     *)
(* project, leaves the targets cache as it was and loads no config file.   *)
(***************************************************************************)
\* The directory of the config file holds an entry of this name.
holds(f, configFilePath, name) ==
  onDisk(f, join(dirname(workspaceRoot \o configFilePath), name))

skipped(f, configFilePath) ==
  \/ Len(configFilePath) = 1
  \/ ~holds(f, configFilePath, "package.json")
       /\ ~holds(f, configFilePath, "project.json")
  \/ configFilePath[Len(configFilePath)] # "tsconfig.json"
       /\ ~holds(f, configFilePath, "tsconfig.json")
  \/ \E name \in {"next.config.js", "next.config.cjs", "next.config.mjs",
                  "next.config.ts"} : holds(f, configFilePath, name)

C19_SkippedConfigYieldsNothing ==
  (created # NotCalled /\ skipped(fs, created.configFilePath))
    => /\ created.status = "ok"
       /\ created.projects = {}
       /\ targetsCache = created.targetsCacheBefore
       /\ ~created.readsConfig

\* C19 witness: after a call that stored targets, a call on
\* /ws/proj/tsconfig.json next to a next.config file, or on
\* /ws/proj/tsconfig.lib.json without the tsconfig.json, has returned.
C19_Witness ==
  /\ created # NotCalled
  /\ created.targetsCacheBefore # <<>>
  /\ created.configFilePath \in {relative(workspaceRoot, RootConfig),
                                 relative(workspaceRoot, LibConfig)}
  /\ skipped(fs, created.configFilePath)
  /\ holds(fs, created.configFilePath, "package.json")
  /\ created.projects = {}

(***************************************************************************)
(* C20: a result holds a typecheck target only when the config file is     *)
(* named tsconfig.json and typecheck is enabled; the command of the        *)
(* unit's typecheck target is the echo when a config of the internal       *)
(* closure or a shallow-external referenced config sets noEmit, and is the *)
(* tsc invocation only when neither the config itself nor one of these     *)
(* sets noEmit.                                                            *)
(***************************************************************************)
typecheckTargets(projects) ==
  UNION {{t \in p.targets : t.name = "typecheck"} : p \in projects}

setsNoEmit(f, configs) == \E c \in configs : noEmit(readTsConfig(f, c))

isTsc(command) ==
  command \in {"tsc --build --emitDeclarationOnly",
               "tsc --build --emitDeclarationOnly --verbose"}

C20_TypecheckCommand ==
  (created # NotCalled /\ created.status = "ok")
    => \A t \in typecheckTargets(created.projects) :
         /\ created.configFilePath[Len(created.configFilePath)] = "tsconfig.json"
         /\ created.options.typecheck.enabled
         /\ isTsc(t.command)
              => ~setsNoEmit(fs, {workspaceRoot \o created.configFilePath})
         /\ created.configFilePath = UnitConfigFile
              => /\ setsNoEmit(fs, InternalClosure(fs) \cup ShallowExternal(fs))
                      => ~isTsc(t.command)
                 /\ isTsc(t.command)
                      => ~setsNoEmit(fs, InternalScope(fs) \cup ShallowExternal(fs))

(***************************************************************************)
(* buildTscTargets on the file systems of one unit                         *)
(*                                                                         *)
(* /ws/proj holds tsconfig.json and tsconfig.lib.json, and a package.json  *)
(* or not; /ws/proj/a/tsconfig.json is inside the unit,                    *)
(* /ws/other/tsconfig.json outside, /ws/tsconfig.base.json and the configs *)
(* of two installed packages can be extended, and /ws/nx.json defines the  *)
(* named input `production` or not.  The file systems differ in one aspect *)
(* each: the entry points of package.json, the output options of the       *)
(* configs, their include and exclude patterns, what they extend and       *)
(* reference, or what the Map of readCachedTsConfig holds before the first *)
(* call.  buildTscTargets is called on the two configs of the unit with    *)
(* the build target disabled, enabled for tsconfig.lib.json or enabled for *)
(* tsconfig.json; no file changes between the calls.                       *)
(***************************************************************************)
\* normalizePluginOptions({ build: true })
BuildEnabled ==
  [DefaultOptions EXCEPT
     !.build = [enabled |-> TRUE, targetName |-> "build",
                configName |-> "tsconfig.lib.json"]]

\* normalizePluginOptions({ build: { configName: 'tsconfig.json' } })
BuildOfRootConfig ==
  [DefaultOptions EXCEPT
     !.build = [enabled |-> TRUE, targetName |-> "build",
                configName |-> "tsconfig.json"]]

BuildOptions == {DefaultOptions, BuildEnabled, BuildOfRootConfig}
BuildConfigs == {RootConfig, LibConfig}

\* The calls: tsconfig.json with the build target disabled or enabled for
\* it, tsconfig.lib.json with each of the options.
BuildCalls ==
  (BuildConfigs \X BuildOptions) \ {<<RootConfig, BuildEnabled>>}

\* The values of package.json: a path, or an object of values.
aPath(p) == [kind |-> "string", path |-> p]
anObject(entries) == [kind |-> "object", entries |-> entries]

\* ./dist/index.js, src/index.ts and ./dist-src/index.ts
DistIndex == <<".", "dist", "index.js">>
SrcIndex == <<"src", "index.ts">>
DistSrcIndex == <<".", "dist-src", "index.ts">>

\* The `exports` of package.json: absent, a path, an object with the `.`
\* entry (a path, or conditions with `types`), an object without it, an
\* object with both, and a `.` entry whose conditions are nested.
ExportsShapes ==
  {Undefined}
  \cup {aPath(p) : p \in {DistIndex, SrcIndex, DistSrcIndex}}
  \cup {anObject("." :> aPath(p)) : p \in {DistIndex, SrcIndex}}
  \cup {anObject("." :> anObject(("types" :> aPath(SrcIndex))
                                 @@ ("default" :> aPath(DistIndex)))),
        anObject("." :> anObject(("types" :> aPath(DistIndex))
                                 @@ ("default" :> aPath(SrcIndex))))}
  \cup {anObject("./feature" :> aPath(p)) : p \in {DistIndex, SrcIndex}}
  \cup {anObject(("." :> aPath(DistIndex)) @@ ("./feature" :> aPath(SrcIndex))),
        anObject("." :> anObject("import" :>
                                   anObject("default" :> aPath(SrcIndex))))}

MainShapes == {Undefined, aPath(SrcIndex), aPath(DistIndex)}
ModuleShapes == {Undefined, aPath(SrcIndex)}

\* The content of /ws/proj/package.json with these entry points.
Descriptor(exports, main, module) ==
  [name |-> "pkg", version |-> 1, namedInputs |-> {},
   exports |-> exports, main |-> main, module |-> module]

\* The output options of a config in the directory dir, and the files it
\* covers: a bundle in dir/dist, the directory dir/dist, or nothing, with a
\* tsBuildInfoFile inside or outside of dir/dist or a rootDir, or not.
OutputModes(dir) ==
  LET dist == join(dir, "dist")
      files == <<dir \o <<"src", "index.ts">>>>
      with(outFile, outDir, tsBuildInfoFile, rootDir, fileNames) ==
        [pathOptions |-> [outFile |-> outFile, outDir |-> outDir,
                          tsBuildInfoFile |-> tsBuildInfoFile,
                          rootDir |-> rootDir],
         fileNames |-> fileNames]
  IN  {with(join(dist, "bundle.js"), <<>>, <<>>, <<>>, files),
       with(join(dist, "bundle.js"), dist, <<>>, <<>>, files),
       with(join(dist, "bundle.js"), <<>>, join(dir, "my.tsbuildinfo"), <<>>,
            files),
       with(<<>>, dist, <<>>, <<>>, files),
       with(<<>>, dist, join(dist, "my.tsbuildinfo"), <<>>, files),
       with(<<>>, dist, join(dir, "my.tsbuildinfo"), <<>>, files),
       with(<<>>, dist, <<>>, join(dir, "src"), files),
       with(<<>>, <<>>, <<>>, <<>>, files),
       with(<<>>, <<>>, join(dir, "my.tsbuildinfo"), <<>>, files),
       with(<<>>, <<>>, <<>>, <<>>, <<>>)}

\* The modes of a config that names an output directory, and the one of a
\* config that covers files and names none.
NamesOutput(dir) ==
  {m \in OutputModes(dir) :
     /\ m.pathOptions.tsBuildInfoFile = <<>>
     /\ m.pathOptions.rootDir = <<>>
     /\ (m.pathOptions.outFile = <<>>) # (m.pathOptions.outDir = <<>>)}
InPlaceMode(dir) ==
  CHOOSE m \in OutputModes(dir) :
    m.pathOptions = NoPathOptions /\ m.fileNames # <<>>

\* The patterns of the include and exclude lists.
Src == <<"src">>
SrcAll == <<"src", "**">>
Feature == <<"src", "feature">>
Ignored == <<"src", "feature", "ignored">>
DotIgnored == <<".", "src", "feature", "ignored">>

\* The content of a config file.
BuildConfig(references, include, exclude, extends, mode) ==
  [TsConfig(references) EXCEPT
     !.raw.include = include, !.raw.exclude = exclude,
     !.raw.extends = extends,
     !.pathOptions = mode.pathOptions, !.fileNames = mode.fileNames]

\* A config that includes src, in place.
PlainConfig(dir) == BuildConfig(<<>>, <<Src>>, <<>>, <<>>, InPlaceMode(dir))

\* What readTsConfig makes of the content when nothing is inherited.
parsedAlone(content) ==
  parseTsConfig([files |-> (RootConfig :> content), dirs |-> {}], RootConfig)

\* The file systems, each with what the Map holds before the first call.
StandardShape ==
  [hasDescriptor |-> TRUE,
   descriptor |-> Descriptor(Undefined, Undefined, Undefined),
   root |-> PlainConfig(UnitDir), lib |-> PlainConfig(UnitDir),
   a |-> PlainConfig(dirname(ConfigA)),
   production |-> FALSE, tsConfigCache |-> <<>>]

\* The entry points of package.json.
DescriptorShapes ==
  {[StandardShape EXCEPT
      !.descriptor = Descriptor(exports, main, module),
      !.lib = BuildConfig(<<>>, <<Src>>, <<>>, <<>>, mode)] :
     exports \in ExportsShapes, main \in MainShapes, module \in ModuleShapes,
     mode \in NamesOutput(UnitDir)}
  \cup {[StandardShape EXCEPT
           !.hasDescriptor = FALSE,
           !.lib = BuildConfig(<<>>, <<Src>>, <<>>, <<>>, mode)] :
          mode \in NamesOutput(UnitDir)}

\* The output options of the configs of the unit and of the config that
\* they reference, or not.
OutputShapes ==
  {[StandardShape EXCEPT
      !.root = BuildConfig(<<dirname(ConfigA)>>, <<Src>>, <<>>, <<>>, mode),
      !.lib = BuildConfig(<<dirname(ConfigA)>>, <<Src>>, <<>>, <<>>, mode),
      !.a = BuildConfig(<<>>, <<Src>>, <<>>, <<>>, modeOfA)] :
     mode \in OutputModes(UnitDir),
     modeOfA \in OutputModes(dirname(ConfigA))}
  \cup {[StandardShape EXCEPT
           !.root = BuildConfig(<<>>, <<Src>>, <<>>, <<>>, mode),
           !.lib = BuildConfig(<<>>, <<Src>>, <<>>, <<>>, mode)] :
          mode \in OutputModes(UnitDir)}

\* The include and exclude patterns of /ws/proj/tsconfig.json and of the
\* config it references, in the same directory or in /ws/proj/a.
PatternShapes ==
  {[StandardShape EXCEPT
      !.root = BuildConfig(refs, include, exclude, <<>>, InPlaceMode(UnitDir)),
      !.lib = BuildConfig(<<>>, includeOfRef, excludeOfRef, <<>>,
                          InPlaceMode(UnitDir)),
      !.a = BuildConfig(<<>>, includeOfRef, excludeOfRef, <<>>,
                        InPlaceMode(dirname(ConfigA)))] :
     refs \in {<<>>, <<LibConfig>>, <<dirname(ConfigA)>>},
     include \in {<<>>, <<Src>>, <<SrcAll>>, <<DotIgnored>>},
     exclude \in {<<>>, <<Ignored>>},
     includeOfRef \in {<<>>, <<Feature>>},
     excludeOfRef \in {<<>>, <<Ignored>>}}

\* What the configs of the unit extend and reference, and the named inputs.
UpstreamShapes ==
  {[StandardShape EXCEPT
      !.root = BuildConfig(refs[1], include, <<>>, extends,
                           InPlaceMode(UnitDir)),
      !.lib = BuildConfig(refs[1], include, <<>>, extends,
                          InPlaceMode(UnitDir)),
      !.a = BuildConfig(refs[2], <<>>, <<>>, <<>>,
                        InPlaceMode(dirname(ConfigA))),
      !.production = production] :
     refs \in {<<<<>>, <<>>>>, <<<<ConfigO>>, <<>>>>,
               <<<<dirname(ConfigA)>>, <<ConfigO>>>>,
               <<<<dirname(ConfigA)>>, <<>>>>},
     include \in {<<>>, <<Src>>},
     extends \in {<<>>, <<"..", "tsconfig.base.json">>} \cup PackageSpecifiers,
     production \in BOOLEAN}

\* The Map holds what an earlier load made of a config that was rewritten
\* since without a change of its modification time.
StaleShapes ==
  LET root == BuildConfig(<<dirname(ConfigA)>>, <<Src>>, <<>>, <<>>,
                          InPlaceMode(UnitDir))
      before(content) == parsedAlone([content EXCEPT !.raw.include = <<Feature>>])
      ofRoot == <<RootConfig, 1>> :> before(TsConfig(<<>>))
      ofA == <<ConfigA, 1>> :> before(PlainConfig(dirname(ConfigA)))
  IN  {[StandardShape EXCEPT !.root = root, !.lib = root,
                             !.tsConfigCache = cache] :
         cache \in {ofRoot, ofA, ofRoot @@ ofA}}

BuildShapes ==
  DescriptorShapes \cup OutputShapes \cup PatternShapes \cup UpstreamShapes
  \cup StaleShapes

BuildFs(shape) ==
  [files |->
     (NxJson :> NxJsonContent(shape.production))
     @@ (RootConfig :> shape.root)
     @@ (LibConfig :> shape.lib)
     @@ (ConfigA :> shape.a)
     @@ (ConfigO :> TsConfig(<<>>))
     @@ (BaseConfig :> TsConfig(<<>>))
     @@ [p \in {<<"ws", "node_modules">> \o s : s \in PackageSpecifiers} |->
           TsConfig(<<>>)]
     @@ (IF shape.hasDescriptor THEN UnitPackageJson :> shape.descriptor
         ELSE UnitProjectJson :> PackageJson(1)),
   dirs |-> {<<>>, workspaceRoot, UnitDir, dirname(ConfigA), dirname(ConfigO)}]

BuildInit ==
  /\ \E shape \in BuildShapes :
       /\ fs = BuildFs(shape)
       /\ mtimeMs = [p \in DOMAIN BuildFs(shape).files |-> 1]
       /\ tsConfigCache = shape.tsConfigCache
  /\ loaded = NotCalled
  /\ failedLoads = {}
  /\ rewrites = 0
  /\ RefsIdle
  /\ ClassifyIdle
  /\ ExtendsIdle
  /\ CacheIdle
  /\ CreateIdle
  /\ BuildIdle

\* The config files that a buildTscTargets call loads with
\* readCachedTsConfig: the config itself (line 266) and, for a target, the
\* referenced configs that the traversals load (lines 857 and 898) and the
\* extended configs (line 780).
configsRead(f, configFilePath, projectRoot, options) ==
  LET tsConfig == readTsConfig(f, configFilePath)
      typechecks ==
        basename(configFilePath) = "tsconfig.json" /\ options.typecheck.enabled
      builds ==
        /\ options.build.enabled
        /\ basename(configFilePath) = options.build.configName
        /\ isValidPackageJsonBuildConfig(f, tsConfig, projectRoot)
  IN  {configFilePath}
      \cup (IF typechecks \/ builds
            THEN Range(resolveInternalProjectReferences(
                         f, tsConfig, projectRoot).loaded)
                 \cup Range(getExtendedConfigFiles(
                              f, configFilePath, tsConfig).files)
                 \cup Range(hasExternalProjectReferences(
                              f, configFilePath, tsConfig, projectRoot, 1, 1,
                              HasExternalStart).loaded)
            ELSE {})
      \cup (IF typechecks
            THEN Range(resolveShallowExternalProjectReferences(
                         f, tsConfig, projectRoot).loaded)
            ELSE {})

\* A Map that a load overwrites with what the parser makes of the file,
\* whether it held an entry or not.
tsConfigCacheRefreshed(f, paths) ==
  LET keys == {<<p, f.mtimeMs[p]>> : p \in paths}
  IN  [k \in DOMAIN f.tsConfigCache \cup keys |->
         IF k \in keys THEN parseTsConfig(f, k[1]) ELSE f.tsConfigCache[k]]

\* The Map after readCachedTsConfig has loaded the files of these paths: an
\* entry that was there stays (line 954), a key that was not there holds
\* what the parser makes of the file (lines 958-959).
tsConfigCacheAfter(f, paths) ==
  LET keys == {<<p, f.mtimeMs[p]>> : p \in paths}
  IN  [k \in DOMAIN f.tsConfigCache \cup keys |->
         IF k \in DOMAIN f.tsConfigCache THEN f.tsConfigCache[k]
         ELSE parseTsConfig(f, k[1])]

\* One buildTscTargets call of the process.
BuildTscTargets ==
  \E configFilePath \in BuildConfigs, options \in BuildOptions :
    LET call == <<configFilePath, options>>
        \* the call comes to isValidPackageJsonBuildConfig (lines 336-338)
        validates ==
          /\ options.build.enabled
          /\ basename(configFilePath) = options.build.configName
        returned(f, r) ==
          /\ call \in BuildCalls
          /\ tscTargets' =
               [status |-> r.status, configFilePath |-> configFilePath,
                options |-> options, targets |-> r.targets,
                again |-> call \in DOMAIN derivations,
                validated |-> validates,
                valid |-> validates
                          /\ isValidPackageJsonBuildConfig(
                               f, readTsConfig(f, configFilePath), UnitRoot)]
          /\ derivations' =
               IF call \in DOMAIN derivations THEN derivations
               ELSE (call :> r) @@ derivations
          /\ tsConfigCache' =
               tsConfigCacheAfter(
                 f, configsRead(f, configFilePath, UnitRoot, options))
        calledOn(f) ==
          returned(f, buildTscTargets(f, configFilePath, UnitRoot, options))
    IN  /\ calledOn(withTsConfigCache(fs, mtimeMs, tsConfigCache))
        /\ UNCHANGED <<fs, mtimeMs, loaded, failedLoads, rewrites>>
        /\ UNCHANGED <<refsVars, classifyVars, extendsVars, cacheVars,
                       createVars>>

BuildNext == BuildTscTargets

SpecBuild == BuildInit /\ [][BuildNext]_vars

\* The file system as the calls have seen it: with the Map they left.
asLoaded == withTsConfigCache(fs, mtimeMs, tsConfigCache)

\* States after a call that returned.
hasBuilt == tscTargets # NotCalled /\ tscTargets.status = "ok"

(***************************************************************************)
(* C27: isValidPackageJsonBuildConfig is true without a package.json; with *)
(* one, it is true exactly when every path it consults lies in the output  *)
(* directory (or, when the config names none, has no TypeScript source     *)
(* extension).  The paths consulted are those of `exports` alone when      *)
(* `exports` is defined: the string, else the `.` entry when there is one, *)
(* else all the entries, an entry being a path or an object whose paths    *)
(* are consulted but for `types`; and `main` and `module` only when        *)
(* `exports` is absent.                                                    *)
(***************************************************************************)
\* The paths of one entry of `exports`.
pathsOf(value) ==
  IF value.kind = "string" THEN {value.path}
  ELSE IF value.kind = "object"
  THEN {value.entries[k].path :
          k \in {j \in DOMAIN value.entries \ {"types"} :
                   value.entries[j].kind = "string"}}
  ELSE {}

consultedPaths(packageJson) ==
  LET exports == fieldOf(packageJson, "exports")
  IN  IF exports.kind = "string" THEN {exports.path}
      ELSE IF exports.kind = "object"
      THEN IF "." \in DOMAIN exports.entries
           THEN pathsOf(exports.entries["."])
           ELSE UNION {pathsOf(exports.entries[k]) :
                         k \in DOMAIN exports.entries}
      ELSE pathsOf(fieldOf(packageJson, "main"))
           \cup pathsOf(fieldOf(packageJson, "module"))

\* The output directory of the config, <<>> when it names none.
outputDirectory(tsConfig) ==
  IF tsConfig.pathOptions.outFile # <<>>
  THEN dirname(tsConfig.pathOptions.outFile)
  ELSE tsConfig.pathOptions.outDir

liesInOutput(tsConfig, path) ==
  IF outputDirectory(tsConfig) # <<>>
  THEN insideOf(outputDirectory(tsConfig), resolve(UnitDir, path))
  ELSE extname(path) \notin {".ts", ".tsx", ".cts", ".mts"}

C27_ValidityByPrecedence ==
  (hasBuilt /\ tscTargets.validated)
    => tscTargets.valid
         = (\/ ~onDisk(fs, UnitPackageJson)
            \/ \A path \in consultedPaths(fs.files[UnitPackageJson]) :
                 liesInOutput(readTsConfig(asLoaded, tscTargets.configFilePath),
                              path))

(***************************************************************************)
(* C21: a buildTscTargets call returns a build target exactly when build   *)
(* is enabled, the config file is named as options.build.configName says   *)
(* and isValidPackageJsonBuildConfig holds.  With outDir `dist`, a         *)
(* package.json whose `main` is src/index.ts (and no `exports`) gives no   *)
(* build target, one whose `exports` has `.` as ./dist/index.js gives      *)
(* one.  A typecheck or build target has cache true and depends on         *)
(* `^<its name>` alone.                                                    *)
(***************************************************************************)
hasBuildTarget == \E t \in tscTargets.targets : t.name = "build"

\* The config of the call names the output directory /ws/proj/dist.
outDirIsDist ==
  LET tsConfig == readTsConfig(asLoaded, tscTargets.configFilePath)
  IN  /\ tsConfig.pathOptions.outFile = <<>>
      /\ tsConfig.pathOptions.outDir = join(UnitDir, "dist")

mainIsSource ==
  /\ onDisk(fs, UnitPackageJson)
  /\ fieldOf(fs.files[UnitPackageJson], "exports").kind = "undefined"
  /\ fieldOf(fs.files[UnitPackageJson], "main") = aPath(SrcIndex)

dotExportIsOutput ==
  /\ onDisk(fs, UnitPackageJson)
  /\ fieldOf(fs.files[UnitPackageJson], "exports").kind = "object"
  /\ "." \in DOMAIN fieldOf(fs.files[UnitPackageJson], "exports").entries
  /\ fieldOf(fs.files[UnitPackageJson], "exports").entries["."]
       = aPath(DistIndex)

C21_BuildTargetIffValid ==
  hasBuilt
    => /\ hasBuildTarget <=> (tscTargets.validated /\ tscTargets.valid)
       /\ (tscTargets.validated /\ outDirIsDist /\ mainIsSource)
            => ~hasBuildTarget
       /\ (tscTargets.validated /\ outDirIsDist /\ dotExportIsOutput)
            => hasBuildTarget
       /\ \A t \in tscTargets.targets :
            t.name \in {"typecheck", "build"}
              => t.cache /\ t.dependsOn = <<<<"^", t.name>>>>

\* C21 witness: a call has returned the build target for a package.json
\* whose `.` export is in dist and whose `main` is a source file.
C21_Witness ==
  /\ hasBuilt
  /\ tscTargets.validated
  /\ outDirIsDist
  /\ dotExportIsOutput
  /\ fieldOf(fs.files[UnitPackageJson], "main") = aPath(SrcIndex)
  /\ hasBuildTarget

(***************************************************************************)
(* The outputs of the targets of a call, and the configs they are derived  *)
(* from: the config of the call and its internal references.               *)
(***************************************************************************)
involvedPaths ==
  LET tsConfig == readTsConfig(asLoaded, tscTargets.configFilePath)
  IN  {tscTargets.configFilePath}
      \cup Range(resolveInternalProjectReferences(asLoaded, tsConfig,
                                                  UnitRoot).refs)

involved(path) == readTsConfig(asLoaded, path)

\* The output lists of the targets of the call.
outputLists == {t.outputs : t \in tscTargets.targets}

OutputBranches == {"outFile", "outDir", "inPlace"}

\* The branch has put its outputs for this config into the list: the
\* bundle, the output directory, or the patterns of the files in place.
contributed(branch, config, outputs) ==
  IF branch = "outFile"
  THEN /\ config.pathOptions.outFile # <<>>
       /\ pathToInputOrOutput(config.pathOptions.outFile, UnitRoot)
            \in Range(outputs)
  ELSE IF branch = "outDir"
  THEN /\ config.pathOptions.outDir # <<>>
       /\ pathToInputOrOutput(config.pathOptions.outDir, UnitRoot)
            \in Range(outputs)
  ELSE Range(InPlaceOutputs) \cap Range(outputs) # {}

\* Every involved config has the outputs of the branch branchOf gives it
\* ("none" for no branch) in the list, and the outputs of another branch
\* only when another involved config has them there.
oneBranchEach(branchOf(_), outputs) ==
  \A path \in involvedPaths :
    /\ branchOf(involved(path)) # "none"
         => contributed(branchOf(involved(path)), involved(path), outputs)
    /\ branchOf(involved(path)) = "inPlace"
         => Range(InPlaceOutputs) \subseteq Range(outputs)
    /\ \A branch \in OutputBranches \ {branchOf(involved(path))} :
         contributed(branch, involved(path), outputs)
           => \E other \in involvedPaths \ {path} :
                /\ branchOf(involved(other)) = branch
                /\ branch = "outDir"
                     => involved(other).pathOptions.outDir
                          = involved(path).pathOptions.outDir

\* outFile over outDir over in place.
firstOfThree(config) ==
  IF config.pathOptions.outFile # <<>> THEN "outFile"
  ELSE IF config.pathOptions.outDir # <<>> THEN "outDir"
  ELSE "inPlace"

\* outFile over outDir over in place, and in place only for a config that
\* covers files.
firstOfThreeWithFiles(config) ==
  IF firstOfThree(config) = "inPlace" /\ config.fileNames = <<>>
  THEN "none"
  ELSE firstOfThree(config)

\* The config of the call sets outFile and has no internal reference.
bundlesAlone ==
  /\ involvedPaths = {tscTargets.configFilePath}
  /\ involved(tscTargets.configFilePath).pathOptions.outFile
       = <<"ws", "proj", "dist", "bundle.js">>

\* The bundle /ws/proj/dist/bundle.js, its .js.map, its .d.ts, its
\* .d.ts.map and one more path, and nothing else.
fiveOfBundle(outputs) ==
  /\ Len(outputs) = 5
  /\ Cardinality(Range(outputs)) = 5
  /\ {<<"{projectRoot}", "dist", name>> :
        name \in {"bundle.js", "bundle.js.map", "bundle.d.ts",
                  "bundle.d.ts.map"}} \subseteq Range(outputs)
  /\ Range(outputs) \cap Range(InPlaceOutputs) = {}
  /\ <<"{projectRoot}", "dist">> \notin Range(outputs)

(***************************************************************************)
(* C22 as it is stated: in the outputs of a target every involved config   *)
(* has the outputs of exactly one of the three branches, outFile over      *)
(* outDir over in place; a config with outFile and no internal reference   *)
(* gives the five outputs of the bundle and none of the in-place patterns, *)
(* with outDir set or not.                                                 *)
(***************************************************************************)
C22_ExactlyOneBranch ==
  hasBuilt
    => \A outputs \in outputLists :
         /\ oneBranchEach(firstOfThree, outputs)
         /\ bundlesAlone => fiveOfBundle(outputs)

(***************************************************************************)
(* C22, amended: every involved config has the outputs of at most one      *)
(* branch, outFile over outDir over in place, and of the in-place branch   *)
(* only when it covers files: a config without outFile and outDir that     *)
(* covers no file gives no output.  A config with outFile and no internal  *)
(* reference gives the five outputs of the bundle and none of the in-place *)
(* patterns, with outDir set or not.                                       *)
(***************************************************************************)
C22_AtMostOneBranch ==
  hasBuilt
    => \A outputs \in outputLists :
         /\ oneBranchEach(firstOfThreeWithFiles, outputs)
         /\ bundlesAlone => fiveOfBundle(outputs)

\* C22 witness: a call has returned a target for a config that sets
\* outFile and outDir and references nothing.
C22_Witness ==
  /\ hasBuilt
  /\ bundlesAlone
  /\ involved(tscTargets.configFilePath).pathOptions.outDir # <<>>
  /\ \E outputs \in outputLists : fiveOfBundle(outputs)

(***************************************************************************)
(* C26: in the outputs of a target, every involved config that sets        *)
(* outFile, or that sets neither outFile nor outDir and covers files, has  *)
(* its own tsBuildInfoFile when it sets one, and not the derived default;  *)
(* and has the derived default when it sets none: <bundle>.tsbuildinfo     *)
(* next to its bundle, or a file named <stem>.tsbuildinfo after the stem   *)
(* of its config file.                                                     *)
(***************************************************************************)
\* <bundle>.tsbuildinfo next to the bundle of the config
infoNextToBundle(config) ==
  pathToInputOrOutput(
    join(dirname(config.pathOptions.outFile),
         withSuffix(basenameWithout(config.pathOptions.outFile, ".js"),
                    ".tsbuildinfo")),
    UnitRoot)

\* The list holds a file named after the stem of the config file.
namedAfterStem(path, outputs) ==
  \E i \in 1..Len(outputs) :
    outputs[i][Len(outputs[i])]
      = withSuffix(basenameWithout(path, ".json"), ".tsbuildinfo")

ownBuildInfo(path, outputs) ==
  LET config == involved(path)
      explicit ==
        pathToInputOrOutput(config.pathOptions.tsBuildInfoFile, UnitRoot)
  IN  IF firstOfThreeWithFiles(config) = "outFile"
      THEN IF config.pathOptions.tsBuildInfoFile # <<>>
           THEN /\ explicit \in Range(outputs)
                /\ infoNextToBundle(config) \notin Range(outputs)
           ELSE infoNextToBundle(config) \in Range(outputs)
      ELSE IF firstOfThreeWithFiles(config) = "inPlace"
      THEN IF config.pathOptions.tsBuildInfoFile # <<>>
           THEN explicit \in Range(outputs)
           ELSE namedAfterStem(path, outputs)
      ELSE TRUE

C26_OwnBuildInfoFile ==
  hasBuilt
    => \A outputs \in outputLists :
         \A path \in involvedPaths : ownBuildInfo(path, outputs)

(***************************************************************************)
(* C23: the inputs of a target hold the negated entry of an exclude        *)
(* pattern exactly when an involved config declares the pattern and no     *)
(* include pattern of another involved config overlaps with it, one        *)
(* matching the other as a glob.  With `src` included by the root config   *)
(* and a referenced config that includes `src/feature` and excludes        *)
(* `src/feature/ignored`, the negated entry of `src/feature/ignored` is    *)
(* there; it is not when an include pattern of the root config matches     *)
(* `src/feature/ignored` as well.                                          *)
(***************************************************************************)
\* The input lists of the targets of the call.
inputLists == {t.inputs : t \in tscTargets.targets}

\* `!{projectRoot}/<pattern>`
negatedEntry(pattern) ==
  [kind |-> "negated", paths |-> <<<<"{projectRoot}">> \o pattern>>]

\* One pattern matches the other, both without `./`.
overlap(includePattern, excludePattern) ==
  \/ minimatch(normalizeOnto(<<>>, includePattern),
               normalizeOnto(<<>>, excludePattern))
  \/ minimatch(normalizeOnto(<<>>, excludePattern),
               normalizeOnto(<<>>, includePattern))

\* No include pattern of another involved config overlaps with the exclude
\* pattern of this one.
reclaimedByNone(path, excludePattern) ==
  \A other \in involvedPaths \ {path} :
    \A includePattern \in Range(involved(other).raw.include) :
      ~overlap(includePattern, excludePattern)

excludePatterns ==
  UNION {Range(involved(path).raw.exclude) : path \in involvedPaths}

\* The root config includes these patterns and excludes nothing, and
\* references a config that includes src/feature and excludes
\* src/feature/ignored.
featureIgnoredByReference(include) ==
  /\ tscTargets.configFilePath = RootConfig
  /\ involved(RootConfig).raw.include = include
  /\ involved(RootConfig).raw.exclude = <<>>
  /\ \E path \in involvedPaths \ {RootConfig} :
       /\ involved(path).raw.include = <<Feature>>
       /\ involved(path).raw.exclude = <<Ignored>>

C23_ExcludeKeptUnlessReclaimed ==
  hasBuilt
    => \A inputs \in inputLists :
         /\ \A pattern \in excludePatterns :
              negatedEntry(pattern) \in Range(inputs)
                <=> \E path \in involvedPaths :
                      /\ pattern \in Range(involved(path).raw.exclude)
                      /\ reclaimedByNone(path, pattern)
         /\ featureIgnoredByReference(<<Src>>)
              => negatedEntry(Ignored) \in Range(inputs)
         /\ (\/ featureIgnoredByReference(<<SrcAll>>)
             \/ featureIgnoredByReference(<<DotIgnored>>))
              => negatedEntry(Ignored) \notin Range(inputs)

\* C23 witness: a call has returned the inputs of the example, with the
\* negated entry of src/feature/ignored.
C23_Witness ==
  /\ hasBuilt
  /\ featureIgnoredByReference(<<Src>>)
  /\ \E inputs \in inputLists : negatedEntry(Ignored) \in Range(inputs)

\* A call has returned the inputs of the example with the pattern
\* reclaimed: no negated entry.
C23_WitnessReclaimed ==
  /\ hasBuilt
  /\ featureIgnoredByReference(<<DotIgnored>>)
  /\ \E inputs \in inputLists : negatedEntry(Ignored) \notin Range(inputs)

(***************************************************************************)
(* C25: the inputs of a target end with one upstream entry and then one    *)
(* externalDependencies marker, and hold no other entry of these kinds.    *)
(* The upstream entry is the dependentTasksOutputFiles entry of `**' and   *)
(* `*.d.ts' when hasExternalProjectReferences is true, else `^production`  *)
(* when there is a named input `production`, else `^default`.  The marker  *)
(* holds `typescript` and the packages that getExtendedConfigFiles has     *)
(* recorded.  When no involved config declares an include pattern, the     *)
(* first entry is the named input `production` or `default` and no entry   *)
(* is the path of a file.                                                  *)
(***************************************************************************)
isUpstream(entry) ==
  \/ entry.kind = "dependentTasksOutputFiles"
  \/ entry.kind = "named" /\ entry.paths \in {<<<<"^production">>>>,
                                               <<<<"^default">>>>}

hasProduction == "production" \in getNamedInputs(fs, UnitRoot)

\* The upstream entry of the config of the call.
upstreamEntry ==
  IF hasExternalProjectReferences(
       asLoaded, tscTargets.configFilePath,
       involved(tscTargets.configFilePath), UnitRoot, 1, 1,
       HasExternalStart).result
  THEN [kind |-> "dependentTasksOutputFiles", paths |-> <<<<"**", "*.d.ts">>>>]
  ELSE [kind |-> "named",
        paths |-> <<<<IF hasProduction THEN "^production" ELSE "^default">>>>]

extendedPackages ==
  Range(getExtendedConfigFiles(asLoaded, tscTargets.configFilePath,
                               involved(tscTargets.configFilePath)).packages)

noIncludePattern ==
  \A path \in involvedPaths : involved(path).raw.include = <<>>

endsWithUpstreamAndMarker(inputs) ==
  /\ Len(inputs) >= 2
  /\ inputs[Len(inputs) - 1] = upstreamEntry
  /\ inputs[Len(inputs)].kind = "externalDependencies"
  /\ Range(inputs[Len(inputs)].paths) = {<<"typescript">>} \cup extendedPackages
  /\ \A i \in 1..(Len(inputs) - 2) :
       ~isUpstream(inputs[i]) /\ inputs[i].kind # "externalDependencies"

startsWithNamedInput(inputs) ==
  /\ inputs[1] = [kind |-> "named",
                  paths |-> <<<<IF hasProduction THEN "production"
                                ELSE "default">>>>]
  /\ \A i \in 1..Len(inputs) : inputs[i].kind # "fileset"

C25_InputsTail ==
  hasBuilt
    => \A inputs \in inputLists :
         /\ endsWithUpstreamAndMarker(inputs)
         /\ noIncludePattern => startsWithNamedInput(inputs)

\* C25 witness: a call has returned inputs for a config without include
\* patterns that extends the config of a package, has an external
\* reference, in a workspace with the named input `production`.
C25_Witness ==
  /\ hasBuilt
  /\ noIncludePattern
  /\ hasProduction
  /\ extendedPackages # {}
  /\ upstreamEntry.kind = "dependentTasksOutputFiles"
  /\ \E inputs \in inputLists : Len(inputs) = 3

\* A call has returned inputs that end with `^production`.
C25_WitnessNamed ==
  /\ hasBuilt
  /\ ~noIncludePattern
  /\ \E inputs \in inputLists :
       inputs[Len(inputs) - 1].paths = <<<<"^production">>>>

(***************************************************************************)
(* C24: a buildTscTargets call returns what the first call for the same    *)
(* config path and the same options has returned, the targets with the     *)
(* entries of their inputs and outputs in the same order, whatever other   *)
(* calls were made in between and whatever the Map of readCachedTsConfig   *)
(* held before the first call, as long as no file changes.                 *)
(***************************************************************************)
\* The call that has returned last.
lastCall == <<tscTargets.configFilePath, tscTargets.options>>

C24_SameTargetsAgain ==
  (tscTargets # NotCalled /\ lastCall \in DOMAIN derivations)
    => /\ tscTargets.status = derivations[lastCall].status
       /\ tscTargets.targets = derivations[lastCall].targets

\* C24 witness: a call with targets has been repeated after calls for other
\* configs or options, in a process whose Map held, before the first call,
\* an entry that is not what the parser makes of the file.
C24_Witness ==
  /\ hasBuilt
  /\ tscTargets.again
  /\ tscTargets.targets # {}
  /\ Cardinality(DOMAIN derivations) >= 3
  /\ \E key \in DOMAIN tsConfigCache :
       tsConfigCache[key] # parseTsConfig(fs, key[1])
====
